---- MODULE Spec2Model ----
(***************************************************************************)
(* A model of the test-management backends of this repository:             *)
(*   - the serial-ID backend (checkRole, the *Handler functions and the    *)
(*     migration schema with SERIAL keys), and                             *)
(*   - the older UUID backend (authenticateAndCheckRole, createProject,    *)
(*     addEntity, batchUploadTestCases, runTestCases and the UUID schema). *)
(* Each HTTP handler is one action: the gate, the decoding of the request, *)
(* the SQL statements with the constraints of the schema, the response.    *)
(* The database is taken to answer every statement; a statement fails      *)
(* when the schema rejects it, and where a handler runs several statements *)
(* a failure of the connection at one of them is an input of the action.   *)
(***************************************************************************)
EXTENDS Integers, Sequences, FiniteSets, TLC

VARIABLES
    now,                  \* the server clock, in units of 12 hours
    writesLeft,           \* how many more successful writes the run explores
    resp,                 \* the response to the last request
    integration,          \* the -int flag of the serial-ID backend ("" when unset)
    projects,             \* serial-ID schema: table projects
    nextProjectId,        \* serial-ID schema: sequence of projects.id
    test_cases,           \* serial-ID schema: table test_cases
    nextTestCaseId,
    test_plans,
    nextTestPlanId,
    test_suites,
    nextTestSuiteId,
    test_case_suites,     \* set of <<test_suite_id, test_case_id>>
    test_case_requirements, \* set of <<test_case_id, requirement_id>>
    test_reports,
    nextTestReportId,
    uProjects,            \* UUID schema: table projects
    uEntities,            \* UUID schema: table entities
    uTestCases,           \* UUID schema: table test_cases
    uuidsDrawn,           \* how many ids uuid.New() has handed out
    inflight,             \* UUID backend: the batch uploads in progress, by connection
    browser               \* the browser client: localStorage, page and requests in flight

serialDb == <<projects, nextProjectId, test_cases, nextTestCaseId, test_plans,
              nextTestPlanId, test_suites, nextTestSuiteId, test_case_suites,
              test_case_requirements, test_reports, nextTestReportId>>
uuidDb == <<uProjects, uEntities, uTestCases, uuidsDrawn>>
vars == <<now, writesLeft, resp, integration, serialDb, uuidDb, inflight, browser>>

----------------------------------------------------------------------------
(* Bounds of the exploration.                                              *)

\* successful writes explored from the empty database, per specification
GateWrites == 1
DataWrites == 3
RunWrites == 6
UuidWrites == 4
\* the clock when the server starts, and how many times it advances
StartTime == 1
MaxTicks == 3
\* the largest id a request names (rows 1..MaxId exist or not)
MaxId == 2
\* the longest batch of test cases in one request
MaxBatch == 2

\* concurrent batch uploads, one per connection of the pool
MaxConns == 2

\* successful writes explored by the association endpoints
AssocWrites == 7

\* requests of the browser client in flight at a time
MaxPending == 2

----------------------------------------------------------------------------
(* Program constants.                                                      *)

managerRole == "manager"
testAnalystRole == "test-analyst"
testerRole == "tester"

jwtSecret == "secret-key"
jwtSecretKey == "super-secret-jwt-key-change-in-production"
bypassSecretKey == "secret-bypass-key"

\* time.Now().Add(24 * time.Hour), in units of 12 hours
SerialTokenTTL == 2
\* time.Now().Add(365 * 24 * time.Hour), in units of 12 hours
UuidTokenTTL == 730
\* time.Now().Add(2 * 7 * 24 * time.Hour), in units of 12 hours
CompletionDelay == 28

StatusOK == 200
StatusNoContent == 204
StatusBadRequest == 400
StatusUnauthorized == 401
StatusForbidden == 403
StatusNotFound == 404
StatusInternalServerError == 500

\* the hardcoded values runTestsHandler stores in a report
PlaceholderPassed == 100
PlaceholderDuration == 30

\* the column list and the VALUES list of createTestCasesHandler's INSERT:
\* "(project_id, name, description data)" is three comma-separated items,
\* "($1, $2, $3, $4)" is four
BatchInsertColumns == 3
BatchInsertValues == 4
\* the same for createTestCaseHandler's INSERT
SingleInsertColumns == 4
SingleInsertValues == 4

----------------------------------------------------------------------------
(* The users tables. No handler writes them.                               *)

\* serial-ID schema: the seeded admin and a user created beside it
SerialUsers ==
    { [username |-> "admin", password |-> "admin123", name |-> "Admin User",
       role |-> managerRole],
      [username |-> "tina", password |-> "tina123", name |-> "Tina",
       role |-> testerRole],
      [username |-> "rita", password |-> "tina123", name |-> "Rita",
       role |-> "reader"] }

\* UUID schema: role is one of the three roles of the CHECK constraint
UuidUsers ==
    { [id |-> "u-man", email |-> "man@x", password |-> "pw-man", role |-> managerRole],
      [id |-> "u-ana", email |-> "ana@x", password |-> "pw-ana", role |-> testAnalystRole],
      [id |-> "u-tes", email |-> "tes@x", password |-> "pw-tes", role |-> testerRole] }

----------------------------------------------------------------------------
(* Requests: headers and tokens.                                           *)

NoToken == [key |-> "none", sub |-> "", role |-> "", exp |-> 0]

\* a JWT of the serial-ID backend: Claims{Username, Role, ExpiresAt}, signed
\* with key
SerialToken(key, username, role, exp) ==
    [key |-> key, sub |-> username, role |-> role, exp |-> exp]

\* a JWT of the UUID backend: Claims{UserID, ExpiresAt}, signed with key
UuidToken(key, userId, exp) ==
    [key |-> key, sub |-> userId, role |-> "", exp |-> exp]

Later(t) == {t + 1}
Earlier(t) == IF t > 0 THEN {t - 1} ELSE {}

\* the tokens a request may carry at time t: signed with the server's key
\* (the manager's expired, expiring now and not yet expired, every other
\* user's not yet expired) or with another key
SerialTokensAt(t) ==
    { SerialToken(jwtSecret, "admin", managerRole, e) : e \in Earlier(t) \cup {t} \cup Later(t) }
    \cup { SerialToken(jwtSecret, u.username, u.role, t + 1) : u \in SerialUsers }
    \cup { SerialToken("forged", "admin", managerRole, t + 1) }

UuidTokensAt(t) ==
    { UuidToken(jwtSecretKey, "u-man", e) : e \in Earlier(t) \cup {t} \cup Later(t) }
    \cup { UuidToken(jwtSecretKey, id, t + 1) : id \in {u.id : u \in UuidUsers} \cup {"u-gone"} }
    \cup { UuidToken("forged", "u-man", t + 1) }

\* the Authorization header: absent, "Bearer <token>", or another scheme word
NoAuth == [scheme |-> "", token |-> NoToken]
Bearer(tk) == [scheme |-> "Bearer", token |-> tk]
Basic(tk) == [scheme |-> "Basic", token |-> tk]

\* a request without the headers the gates read
NoHeaders == [Rodik |-> "", XSecretKey |-> "", Authorization |-> NoAuth]

\* the headers of a request to the serial-ID backend: without the Rodik
\* header under every Authorization header, with it under some
SerialHeadersAt(t) ==
    { [Rodik |-> "", XSecretKey |-> "", Authorization |-> a] :
        a \in {NoAuth, Basic(SerialToken(jwtSecret, "admin", managerRole, t + 1))}
              \cup { Bearer(tk) : tk \in SerialTokensAt(t) } }
    \cup { [Rodik |-> b, XSecretKey |-> "", Authorization |-> a] :
             b \in {"1", "no"},
             a \in {NoAuth, Bearer(SerialToken("forged", "admin", managerRole, t + 1)),
                    Bearer(SerialToken(jwtSecret, "tina", testerRole, t + 1))} }

\* the headers of a request to the UUID backend: without X-Secret-Key under
\* every Authorization header, with the configured value or another one
\* under some
UuidHeadersAt(t) ==
    { [Rodik |-> "", XSecretKey |-> "", Authorization |-> a] :
        a \in {NoAuth, Basic(UuidToken(jwtSecretKey, "u-man", t + 1))}
              \cup { Bearer(tk) : tk \in UuidTokensAt(t) } }
    \cup { [Rodik |-> "", XSecretKey |-> b, Authorization |-> a] :
             b \in {bypassSecretKey, "guess"},
             a \in {NoAuth, Bearer(UuidToken("forged", "u-man", t + 1)),
                    Bearer(UuidToken(jwtSecretKey, "u-tes", t + 1))} }

\* the requests of logged-in staff and of a caller without credentials: the
\* headers under which the data handlers are explored
SerialStaffHeadersAt(t) ==
    { [Rodik |-> "", XSecretKey |-> "", Authorization |-> a] :
        a \in {NoAuth, Bearer(SerialToken(jwtSecret, "admin", managerRole, t + 1))} }

UuidStaffHeadersAt(t) ==
    { [Rodik |-> "", XSecretKey |-> "", Authorization |-> a] :
        a \in {NoAuth} \cup { Bearer(UuidToken(jwtSecretKey, u.id, t + 1)) : u \in UuidUsers } }

----------------------------------------------------------------------------
(* The gates.                                                              *)

\* a verifyJWT that does not look at the expiry
verifyJWTIgnoringExpiry(tk) == tk.key = jwtSecret

\* jwt.ParseWithClaims with the server's key (dgrijalva/jwt-go v3): the
\* signature must be the key's and the token must not be past its expiry
\* (now <= exp)
verifyJWT(tk) == tk.key = jwtSecret /\ now <= tk.exp

\* the outcome of a gate: passed or the status of the rejection, and whether
\* the token was verified on the way
GateResult(ok, status, verified) == [ok |-> ok, status |-> status, verified |-> verified]

\* a checkRole that reads the Rodik header only after the token
checkRoleTokenFirst(h, role) ==
    IF h.Authorization = NoAuth THEN GateResult(FALSE, StatusUnauthorized, FALSE)
    ELSE IF h.Authorization.scheme # "Bearer" \/ ~verifyJWT(h.Authorization.token)
         THEN GateResult(FALSE, StatusUnauthorized, TRUE)
    ELSE IF h.Rodik # "" THEN GateResult(TRUE, StatusOK, TRUE)
    ELSE IF h.Authorization.token.role # role THEN GateResult(FALSE, StatusForbidden, TRUE)
    ELSE GateResult(TRUE, StatusOK, TRUE)

\* a gate that asks for a valid token and not for its role
checkRoleAnyRole(h, role) ==
    IF h.Rodik # "" THEN GateResult(TRUE, StatusOK, FALSE)
    ELSE IF h.Authorization = NoAuth THEN GateResult(FALSE, StatusUnauthorized, FALSE)
    ELSE IF h.Authorization.scheme # "Bearer" \/ ~verifyJWT(h.Authorization.token)
         THEN GateResult(FALSE, StatusUnauthorized, TRUE)
    ELSE GateResult(TRUE, StatusOK, TRUE)

\* checkRole of the serial-ID backend
checkRole(h, role) ==
    IF h.Rodik # "" THEN GateResult(TRUE, StatusOK, FALSE)
    ELSE IF h.Authorization = NoAuth THEN GateResult(FALSE, StatusUnauthorized, FALSE)
    ELSE IF h.Authorization.scheme # "Bearer" \/ ~verifyJWT(h.Authorization.token)
         THEN GateResult(FALSE, StatusUnauthorized, TRUE)
    ELSE IF h.Authorization.token.role # role THEN GateResult(FALSE, StatusForbidden, TRUE)
    ELSE GateResult(TRUE, StatusOK, TRUE)

\* a token check of the UUID backend that does not look at the expiry
uuidTokenValidForever(tk) == tk.key = jwtSecretKey

\* jwt.ParseWithClaims with the server's key (golang-jwt v4): the signature
\* must be the key's and the token must be before its expiry (now < exp)
uuidTokenValid(tk) == tk.key = jwtSecretKey /\ now < tk.exp

\* SELECT role FROM users WHERE id = $1
uuidUserRoles(userId) == { u.role : u \in { x \in UuidUsers : x.id = userId } }

\* a gate that takes any non-empty X-Secret-Key for the configured one
authenticateAndCheckRoleAnyKey(h, requiredRole) ==
    IF h.XSecretKey # "" THEN GateResult(TRUE, StatusOK, FALSE)
    ELSE IF h.Authorization = NoAuth THEN GateResult(FALSE, StatusUnauthorized, FALSE)
    ELSE IF h.Authorization.scheme # "Bearer" THEN GateResult(FALSE, StatusUnauthorized, FALSE)
    ELSE IF ~uuidTokenValid(h.Authorization.token)
         THEN GateResult(FALSE, StatusUnauthorized, TRUE)
    ELSE IF requiredRole \notin uuidUserRoles(h.Authorization.token.sub)
         THEN GateResult(FALSE, StatusUnauthorized, TRUE)
    ELSE GateResult(TRUE, StatusOK, TRUE)

\* authenticateAndCheckRole of the UUID backend; every handler answers an
\* error of it with http.StatusUnauthorized
authenticateAndCheckRole(h, requiredRole) ==
    IF h.XSecretKey = bypassSecretKey THEN GateResult(TRUE, StatusOK, FALSE)
    ELSE IF h.Authorization = NoAuth THEN GateResult(FALSE, StatusUnauthorized, FALSE)
    ELSE IF h.Authorization.scheme # "Bearer" THEN GateResult(FALSE, StatusUnauthorized, FALSE)
    ELSE IF ~uuidTokenValid(h.Authorization.token)
         THEN GateResult(FALSE, StatusUnauthorized, TRUE)
    ELSE IF uuidUserRoles(h.Authorization.token.sub) = {}
         THEN GateResult(FALSE, StatusUnauthorized, TRUE)
    ELSE IF requiredRole \notin uuidUserRoles(h.Authorization.token.sub)
         THEN GateResult(FALSE, StatusUnauthorized, TRUE)
    ELSE GateResult(TRUE, StatusOK, TRUE)

----------------------------------------------------------------------------
(* Requests: parameters and bodies.                                        *)

\* a query parameter that names a row: absent, not a number, or a number
\* (strconv.Atoi)
MissingParam == [kind |-> "missing", val |-> 0]
NotANumber == [kind |-> "nan", val |-> 0]
Num(i) == [kind |-> "num", val |-> i]
IdParams == {MissingParam, NotANumber} \cup { Num(i) : i \in 0..MaxId }

ProjectNames == {"P1", "P2"}

\* the body of POST /project: not JSON, or a Project
ProjectBodies ==
    { [decodes |-> FALSE, name |-> "", description |-> "", responsible_name |-> ""] }
    \cup { [decodes |-> TRUE, name |-> n, description |-> "", responsible_name |-> "Alice"] :
             n \in ProjectNames }

\* the body {"description": ...}
DescriptionBodies == { [decodes |-> FALSE, description |-> ""],
                       [decodes |-> TRUE, description |-> "d"] }

\* the body {"completion_date": ...}: the text of a date (its day), or not
DateBodies == { [decodes |-> FALSE, isDate |-> FALSE, day |-> 0],
                [decodes |-> TRUE, isDate |-> FALSE, day |-> 0],
                [decodes |-> TRUE, isDate |-> TRUE, day |-> 100] }

----------------------------------------------------------------------------
(* Responses.                                                              *)

\* a request without a body
NoBody == [decodes |-> FALSE]

\* the response to a request: the handler that wrote it, the headers and the
\* body of the request it answers, the status, whether the gate verified a
\* token, the body (an id, rows, a token), the statement of a batch at which
\* the handler gave up, and the outbound calls the handler made
Response(handler, h, status, verified) ==
    [handler |-> handler, headers |-> h, status |-> status, verified |-> verified,
     req |-> NoBody, id |-> 0, failedAt |-> 0, rows |-> {}, token |-> NoToken,
     outbound |-> << >>]

NoRequest == Response("none", NoHeaders, 0, FALSE)

\* one more state-changing statement is explored only while the budget lasts
Spend(changed) ==
    /\ changed => writesLeft > 0
    /\ writesLeft' = IF changed THEN writesLeft - 1 ELSE writesLeft

\* a request refused before any statement
Refuse(handler, h, status, verified) ==
    /\ resp' = Response(handler, h, status, verified)
    /\ UNCHANGED <<now, writesLeft, integration, inflight, browser, serialDb, uuidDb>>

\* a request that read but wrote nothing
ReadOnly(r) ==
    /\ resp' = r
    /\ UNCHANGED <<now, writesLeft, integration, inflight, browser, serialDb, uuidDb>>

----------------------------------------------------------------------------
(* Serial-ID backend: login.                                               *)

LoginBodies ==
    { [decodes |-> FALSE, username |-> "", password |-> ""] }
    \cup { [decodes |-> TRUE, username |-> u, password |-> pw] :
             u \in {"admin", "tina", "rita", "nobody"}, pw \in {"admin123", "tina123"} }

\* a generateJWT that signs every token as a manager's
generateManagerJWT(username, role) ==
    SerialToken(jwtSecret, username, managerRole, now + SerialTokenTTL)

\* generateJWT
generateJWT(username, role) == SerialToken(jwtSecret, username, role, now + SerialTokenTTL)

\* loginHandler of the serial-ID backend
loginHandler(req) ==
    LET found == { u \in SerialUsers : u.username = req.username } IN
    IF ~req.decodes THEN Refuse("login", NoHeaders, StatusBadRequest, FALSE)
    ELSE IF found = {}
         THEN ReadOnly([Response("login", NoHeaders, StatusUnauthorized, FALSE) EXCEPT
                           !.req = req])
    ELSE LET user == CHOOSE u \in found : TRUE IN
         IF req.password # user.password
         THEN ReadOnly([Response("login", NoHeaders, StatusUnauthorized, FALSE) EXCEPT
                           !.req = req])
         ELSE ReadOnly([Response("login", NoHeaders, StatusOK, FALSE) EXCEPT
                           !.req = req,
                           !.token = generateJWT(user.username, user.role),
                           !.rows = {[username |-> user.username, name |-> user.name,
                                      role |-> user.role]}])

----------------------------------------------------------------------------
(* Serial-ID backend: projects.                                            *)

otherThanProjects == <<test_cases, nextTestCaseId, test_plans, nextTestPlanId,
                       test_suites, nextTestSuiteId, test_case_suites,
                       test_case_requirements>>

\* a SELECT that leaves archived projects out
selectUnarchivedProjects == { p \in projects : ~p.is_archived }

\* SELECT ... FROM projects
selectProjects == projects

\* getProjectsHandler
getProjectsHandler(h) ==
    LET g == checkRole(h, managerRole) IN
    IF ~g.ok THEN Refuse("getProjects", h, g.status, g.verified)
    ELSE ReadOnly([Response("getProjects", h, StatusOK, g.verified) EXCEPT
                      !.rows = selectProjects])

\* getProjectHandler
getProjectHandler(h, q) ==
    LET g == checkRole(h, managerRole)
        found == { p \in projects : p.id = q.val } IN
    IF ~g.ok THEN Refuse("getProject", h, g.status, g.verified)
    ELSE IF q.kind # "num" THEN Refuse("getProject", h, StatusBadRequest, g.verified)
    ELSE IF found = {}
         THEN ReadOnly([Response("getProject", h, StatusNotFound, g.verified) EXCEPT !.id = q.val])
    ELSE ReadOnly([Response("getProject", h, StatusOK, g.verified) EXCEPT
                      !.id = q.val, !.rows = found])

\* the row INSERT INTO projects (name, description, responsible_name,
\* completion_date) stores, with the defaults of the schema
newProjectRow(id, p) ==
    [id |-> id, name |-> p.name, description |-> p.description,
     responsible_name |-> p.responsible_name, status |-> "active",
     completion_date |-> now + CompletionDelay, is_archived |-> FALSE]

\* createProjectHandler
createProjectHandler(h, p) ==
    LET g == checkRole(h, managerRole) IN
    IF ~g.ok THEN Refuse("createProject", h, g.status, g.verified)
    ELSE IF ~p.decodes THEN Refuse("createProject", h, StatusBadRequest, g.verified)
    ELSE /\ projects' = projects \cup {newProjectRow(nextProjectId, p)}
         /\ nextProjectId' = nextProjectId + 1
         /\ resp' = [Response("createProject", h, StatusOK, g.verified) EXCEPT
                        !.req = p, !.id = nextProjectId]
         /\ Spend(TRUE)
         /\ UNCHANGED <<now, integration, inflight, browser, otherThanProjects, test_reports, nextTestReportId, uuidDb>>

\* a DELETE whose test_reports rows stay behind
deleteProjectRowKeepingReports(id) ==
    /\ projects' = { p \in projects : p.id # id }
    /\ test_reports' = test_reports

\* DELETE FROM projects WHERE id = $1, with test_reports.project_id
\* REFERENCES projects(id) ON DELETE CASCADE
deleteProjectRow(id) ==
    /\ projects' = { p \in projects : p.id # id }
    /\ test_reports' = { r \in test_reports : r.project_id # id }

\* deleteProjectHandler
deleteProjectHandler(h, q) ==
    LET g == checkRole(h, managerRole) IN
    IF ~g.ok THEN Refuse("deleteProject", h, g.status, g.verified)
    ELSE IF q.kind # "num" THEN Refuse("deleteProject", h, StatusBadRequest, g.verified)
    ELSE /\ deleteProjectRow(q.val)
         /\ resp' = [Response("deleteProject", h, StatusNoContent, g.verified) EXCEPT !.id = q.val]
         /\ Spend(projects' # projects)
         /\ UNCHANGED <<now, integration, inflight, browser, nextProjectId, otherThanProjects, nextTestReportId, uuidDb>>

\* an UPDATE that flips the flag: SET is_archived = NOT is_archived
archiveProjectRowToggling(id) ==
    { IF p.id = id THEN [p EXCEPT !.is_archived = ~p.is_archived] ELSE p : p \in projects }

\* an UPDATE without the WHERE clause
archiveEveryProjectRow(id) == { [p EXCEPT !.is_archived = TRUE] : p \in projects }

\* UPDATE projects SET is_archived = true WHERE id = $1
archiveProjectRow(id) ==
    { IF p.id = id THEN [p EXCEPT !.is_archived = TRUE] ELSE p : p \in projects }

\* archiveProjectHandler
archiveProjectHandler(h, q) ==
    LET g == checkRole(h, managerRole) IN
    IF ~g.ok THEN Refuse("archiveProject", h, g.status, g.verified)
    ELSE IF q.kind # "num" THEN Refuse("archiveProject", h, StatusBadRequest, g.verified)
    ELSE /\ projects' = archiveProjectRow(q.val)
         /\ resp' = [Response("archiveProject", h, StatusNoContent, g.verified) EXCEPT !.id = q.val]
         /\ Spend(projects' # projects)
         /\ UNCHANGED <<now, integration, inflight, browser, nextProjectId, otherThanProjects, test_reports,
                        nextTestReportId, uuidDb>>

\* setProjectCompletionDateHandler: the DATE column refuses a text that is no
\* date when the statement is bound
setProjectCompletionDateHandler(h, q, body) ==
    LET g == checkRole(h, managerRole) IN
    IF ~g.ok THEN Refuse("setProjectCompletionDate", h, g.status, g.verified)
    ELSE IF q.kind # "num" THEN Refuse("setProjectCompletionDate", h, StatusBadRequest, g.verified)
    ELSE IF ~body.decodes
         THEN Refuse("setProjectCompletionDate", h, StatusBadRequest, g.verified)
    ELSE IF ~body.isDate
         THEN Refuse("setProjectCompletionDate", h, StatusInternalServerError, g.verified)
    ELSE /\ projects' = { IF p.id = q.val THEN [p EXCEPT !.completion_date = body.day]
                          ELSE p : p \in projects }
         /\ resp' = [Response("setProjectCompletionDate", h, StatusNoContent, g.verified)
                        EXCEPT !.id = q.val]
         /\ Spend(projects' # projects)
         /\ UNCHANGED <<now, integration, inflight, browser, nextProjectId, otherThanProjects, test_reports,
                        nextTestReportId, uuidDb>>

\* setProjectDescriptionHandler
setProjectDescriptionHandler(h, q, body) ==
    LET g == checkRole(h, managerRole) IN
    IF ~g.ok THEN Refuse("setProjectDescription", h, g.status, g.verified)
    ELSE IF q.kind # "num" THEN Refuse("setProjectDescription", h, StatusBadRequest, g.verified)
    ELSE IF ~body.decodes THEN Refuse("setProjectDescription", h, StatusBadRequest, g.verified)
    ELSE /\ projects' = { IF p.id = q.val THEN [p EXCEPT !.description = body.description]
                          ELSE p : p \in projects }
         /\ resp' = [Response("setProjectDescription", h, StatusNoContent, g.verified)
                        EXCEPT !.id = q.val]
         /\ Spend(projects' # projects)
         /\ UNCHANGED <<now, integration, inflight, browser, nextProjectId, otherThanProjects, test_reports,
                        nextTestReportId, uuidDb>>

----------------------------------------------------------------------------
(* Serial-ID backend: test cases.                                          *)

otherThanTestCases == <<projects, nextProjectId, test_plans, nextTestPlanId,
                        test_suites, nextTestSuiteId, test_case_suites,
                        test_case_requirements, test_reports, nextTestReportId>>

TestCaseNames == {"", "T1"}

\* the body of POST /test-case: not JSON, or a TestCase
TestCaseBodies ==
    { [decodes |-> FALSE, project_id |-> 0, name |-> "", description |-> ""] }
    \cup { [decodes |-> TRUE, project_id |-> i, name |-> "T1", description |-> "d"] :
             i \in 0..MaxId }

\* one element of the body of POST /test-cases
BatchItems == { [name |-> n, description |-> "d"] : n \in TestCaseNames }

\* the sequences over S of length 0..n
RECURSIVE SeqsUpTo(_, _)
SeqsUpTo(S, n) ==
    IF n = 0 THEN {<< >>}
    ELSE LET shorter == SeqsUpTo(S, n - 1) IN
         shorter \cup { Append(q, x) : q \in { t \in shorter : Len(t) = n - 1 }, x \in S }

\* the body of POST /test-cases: not JSON, or a list of test cases
TestCaseBatches ==
    { [decodes |-> FALSE, items |-> << >>] }
    \cup { [decodes |-> TRUE, items |-> q] : q \in SeqsUpTo(BatchItems, MaxBatch) }

\* a statement whose column list and VALUES list do not match is refused by
\* the database whatever its arguments
statementAccepted(columns, values) == columns = values

\* getTestCasesHandler
getTestCasesHandler(h, q) ==
    LET g == checkRole(h, managerRole) IN
    IF ~g.ok THEN Refuse("getTestCases", h, g.status, g.verified)
    ELSE IF q.kind # "num" THEN Refuse("getTestCases", h, StatusBadRequest, g.verified)
    ELSE ReadOnly([Response("getTestCases", h, StatusOK, g.verified) EXCEPT
                      !.id = q.val,
                      !.rows = { tc \in test_cases : tc.project_id = q.val }])

\* getTestCaseHandler
getTestCaseHandler(h, q) ==
    LET g == checkRole(h, managerRole)
        found == { tc \in test_cases : tc.id = q.val } IN
    IF ~g.ok THEN Refuse("getTestCase", h, g.status, g.verified)
    ELSE IF q.kind # "num" THEN Refuse("getTestCase", h, StatusBadRequest, g.verified)
    ELSE IF found = {}
         THEN ReadOnly([Response("getTestCase", h, StatusNotFound, g.verified) EXCEPT !.id = q.val])
    ELSE ReadOnly([Response("getTestCase", h, StatusOK, g.verified) EXCEPT
                      !.id = q.val, !.rows = found])

\* the row INSERT INTO test_cases stores, with the defaults of the schema;
\* test_cases.project_id is a plain INTEGER
newTestCaseRow(id, projectId, name, description) ==
    [id |-> id, project_id |-> projectId, name |-> name, description |-> description,
     status |-> "not_run"]

\* createTestCaseHandler
createTestCaseHandler(h, tc) ==
    LET g == checkRole(h, managerRole) IN
    IF ~g.ok THEN Refuse("createTestCase", h, g.status, g.verified)
    ELSE IF ~tc.decodes THEN Refuse("createTestCase", h, StatusBadRequest, g.verified)
    ELSE IF ~statementAccepted(SingleInsertColumns, SingleInsertValues)
         THEN Refuse("createTestCase", h, StatusInternalServerError, g.verified)
    ELSE /\ test_cases' = test_cases \cup
                {newTestCaseRow(nextTestCaseId, tc.project_id, tc.name, tc.description)}
         /\ nextTestCaseId' = nextTestCaseId + 1
         /\ resp' = [Response("createTestCase", h, StatusOK, g.verified) EXCEPT
                        !.id = nextTestCaseId]
         /\ Spend(TRUE)
         /\ UNCHANGED <<now, integration, inflight, browser, otherThanTestCases, uuidDb>>

\* "Description: " + description
prefixed(d) == IF d = "d" THEN "Description: d" ELSE "Description: "

\* the loop body of createTestCasesHandler: an item without a name takes its
\* description as name
batchItemRow(id, projectId, tc) ==
    IF tc.name = ""
    THEN newTestCaseRow(id, projectId, tc.description, prefixed(tc.description))
    ELSE newTestCaseRow(id, projectId, tc.name, tc.description)

\* the index of the first INSERT of the loop that fails, 0 when none does:
\* the statement is refused, or the connection fails at statement failAt
batchFirstFailure(n, failAt) ==
    IF n = 0 THEN 0
    ELSE IF ~statementAccepted(BatchInsertColumns, BatchInsertValues) THEN 1
    ELSE IF failAt \in 1..n THEN failAt
    ELSE 0

\* createTestCasesHandler: each INSERT is its own statement on db (no
\* transaction), the loop returns at the first error
createTestCasesHandler(h, q, body, failAt) ==
    LET g == checkRole(h, managerRole)
        n == Len(body.items)
        k == batchFirstFailure(n, failAt)
        stored == IF k = 0 THEN n ELSE k - 1
        rows == { batchItemRow(nextTestCaseId + i - 1, q.val, body.items[i]) : i \in 1..stored }
    IN
    IF ~g.ok THEN Refuse("createTestCases", h, g.status, g.verified)
    ELSE IF q.kind # "num" THEN Refuse("createTestCases", h, StatusBadRequest, g.verified)
    ELSE IF ~body.decodes THEN Refuse("createTestCases", h, StatusBadRequest, g.verified)
    ELSE /\ test_cases' = test_cases \cup rows
         /\ nextTestCaseId' = nextTestCaseId + stored
         /\ resp' = IF k = 0
                    THEN [Response("createTestCases", h, StatusOK, g.verified) EXCEPT
                             !.id = n, !.rows = { [id |-> r.id] : r \in rows }]
                    ELSE [Response("createTestCases", h, StatusInternalServerError, g.verified)
                             EXCEPT !.id = n, !.failedAt = k]
         /\ Spend(test_cases' # test_cases)
         /\ UNCHANGED <<now, integration, inflight, browser, otherThanTestCases, uuidDb>>

\* a DELETE that takes the test case's association rows with it, as a
\* reference with ON DELETE CASCADE would
deleteTestCaseHandlerCascading(h, q) ==
    LET g == checkRole(h, managerRole) IN
    IF ~g.ok THEN Refuse("deleteTestCase", h, g.status, g.verified)
    ELSE IF q.kind # "num" THEN Refuse("deleteTestCase", h, StatusBadRequest, g.verified)
    ELSE /\ test_cases' = { tc \in test_cases : tc.id # q.val }
         /\ test_case_suites' = { x \in test_case_suites : x[2] # q.val }
         /\ test_case_requirements' = { x \in test_case_requirements : x[1] # q.val }
         /\ resp' = [Response("deleteTestCase", h, StatusNoContent, g.verified) EXCEPT !.id = q.val]
         /\ Spend(test_cases' # test_cases)
         /\ UNCHANGED <<now, integration, inflight, browser, nextTestCaseId, projects, nextProjectId,
                        test_plans, nextTestPlanId, test_suites, nextTestSuiteId,
                        test_reports, nextTestReportId, uuidDb>>

\* deleteTestCaseHandler
deleteTestCaseHandler(h, q) ==
    LET g == checkRole(h, managerRole) IN
    IF ~g.ok THEN Refuse("deleteTestCase", h, g.status, g.verified)
    ELSE IF q.kind # "num" THEN Refuse("deleteTestCase", h, StatusBadRequest, g.verified)
    ELSE /\ test_cases' = { tc \in test_cases : tc.id # q.val }
         /\ resp' = [Response("deleteTestCase", h, StatusNoContent, g.verified) EXCEPT !.id = q.val]
         /\ Spend(test_cases' # test_cases)
         /\ UNCHANGED <<now, integration, inflight, browser, nextTestCaseId, otherThanTestCases, uuidDb>>

\* setTestCaseDescriptionHandler
setTestCaseDescriptionHandler(h, q, body) ==
    LET g == checkRole(h, managerRole) IN
    IF ~g.ok THEN Refuse("setTestCaseDescription", h, g.status, g.verified)
    ELSE IF q.kind # "num" THEN Refuse("setTestCaseDescription", h, StatusBadRequest, g.verified)
    ELSE IF ~body.decodes THEN Refuse("setTestCaseDescription", h, StatusBadRequest, g.verified)
    ELSE /\ test_cases' = { IF tc.id = q.val THEN [tc EXCEPT !.description = body.description]
                            ELSE tc : tc \in test_cases }
         /\ resp' = [Response("setTestCaseDescription", h, StatusNoContent, g.verified)
                        EXCEPT !.id = q.val]
         /\ Spend(test_cases' # test_cases)
         /\ UNCHANGED <<now, integration, inflight, browser, nextTestCaseId, otherThanTestCases, uuidDb>>

----------------------------------------------------------------------------
(* Serial-ID backend: test plans and test suites.                          *)

otherThanTestPlans == <<projects, nextProjectId, test_cases, nextTestCaseId,
                        test_suites, nextTestSuiteId, test_case_suites,
                        test_case_requirements>>
otherThanTestSuites == <<projects, nextProjectId, test_cases, nextTestCaseId,
                         test_plans, nextTestPlanId, test_case_suites,
                         test_case_requirements>>

\* a NULL of a nullable column
Null == 0 - 1

\* the body of POST /test-plan: not JSON, or a TestPlan whose deadline is
\* absent, the text of a date, or another text
TestPlanBodies ==
    { [decodes |-> FALSE, project_id |-> 0, deadline |-> "absent"] }
    \cup { [decodes |-> TRUE, project_id |-> i, deadline |-> d] :
             i \in 0..MaxId, d \in {"absent", "date", "text"} }

\* the body of POST /test-suite: not JSON, or a TestSuite
TestSuiteBodies ==
    { [decodes |-> FALSE, project_id |-> 0] }
    \cup { [decodes |-> TRUE, project_id |-> i] : i \in 0..MaxId }

\* getTestPlansHandler
getTestPlansHandler(h) ==
    LET g == checkRole(h, managerRole) IN
    IF ~g.ok THEN Refuse("getTestPlans", h, g.status, g.verified)
    ELSE ReadOnly([Response("getTestPlans", h, StatusOK, g.verified) EXCEPT !.rows = test_plans])

\* a by-id read that answers with whatever the SELECT found
getTestPlanHandlerNoRowCheck(h, q) ==
    LET g == checkRole(h, managerRole)
        found == { tp \in test_plans : tp.id = q.val } IN
    IF ~g.ok THEN Refuse("getTestPlan", h, g.status, g.verified)
    ELSE IF q.kind # "num" THEN Refuse("getTestPlan", h, StatusBadRequest, g.verified)
    ELSE ReadOnly([Response("getTestPlan", h, StatusOK, g.verified) EXCEPT
                      !.id = q.val, !.rows = found])

\* getTestPlanHandler
getTestPlanHandler(h, q) ==
    LET g == checkRole(h, managerRole)
        found == { tp \in test_plans : tp.id = q.val } IN
    IF ~g.ok THEN Refuse("getTestPlan", h, g.status, g.verified)
    ELSE IF q.kind # "num" THEN Refuse("getTestPlan", h, StatusBadRequest, g.verified)
    ELSE IF found = {}
         THEN ReadOnly([Response("getTestPlan", h, StatusNotFound, g.verified) EXCEPT !.id = q.val])
    ELSE ReadOnly([Response("getTestPlan", h, StatusOK, g.verified) EXCEPT
                      !.id = q.val, !.rows = found])

\* createTestPlanHandler: test_plans.project_id is a plain INTEGER, the DATE
\* column refuses a deadline that is no date
createTestPlanHandler(h, tp) ==
    LET g == checkRole(h, managerRole) IN
    IF ~g.ok THEN Refuse("createTestPlan", h, g.status, g.verified)
    ELSE IF ~tp.decodes THEN Refuse("createTestPlan", h, StatusBadRequest, g.verified)
    ELSE IF tp.deadline = "text"
         THEN Refuse("createTestPlan", h, StatusInternalServerError, g.verified)
    ELSE /\ test_plans' = test_plans \cup
                { [id |-> nextTestPlanId, project_id |-> tp.project_id, name |-> "plan",
                   description |-> "", goal |-> "",
                   deadline |-> IF tp.deadline = "date" THEN 100 ELSE Null] }
         /\ nextTestPlanId' = nextTestPlanId + 1
         /\ resp' = [Response("createTestPlan", h, StatusOK, g.verified) EXCEPT
                        !.id = nextTestPlanId]
         /\ Spend(TRUE)
         /\ UNCHANGED <<now, integration, inflight, browser, otherThanTestPlans, test_reports,
                        nextTestReportId, uuidDb>>

\* DELETE FROM test_plans WHERE id = $1, with test_reports.test_plan_id
\* REFERENCES test_plans(id) ON DELETE SET NULL
deleteTestPlanRow(id) ==
    /\ test_plans' = { tp \in test_plans : tp.id # id }
    /\ test_reports' = { IF r.test_plan_id = id /\ (\E tp \in test_plans : tp.id = id)
                         THEN [r EXCEPT !.test_plan_id = Null] ELSE r : r \in test_reports }

\* deleteTestPlanHandler
deleteTestPlanHandler(h, q) ==
    LET g == checkRole(h, managerRole) IN
    IF ~g.ok THEN Refuse("deleteTestPlan", h, g.status, g.verified)
    ELSE IF q.kind # "num" THEN Refuse("deleteTestPlan", h, StatusBadRequest, g.verified)
    ELSE /\ deleteTestPlanRow(q.val)
         /\ resp' = [Response("deleteTestPlan", h, StatusNoContent, g.verified) EXCEPT !.id = q.val]
         /\ Spend(test_plans' # test_plans)
         /\ UNCHANGED <<now, integration, inflight, browser, nextTestPlanId, otherThanTestPlans,
                        nextTestReportId, uuidDb>>

\* setTestPlanDescriptionHandler
setTestPlanDescriptionHandler(h, q, body) ==
    LET g == checkRole(h, managerRole) IN
    IF ~g.ok THEN Refuse("setTestPlanDescription", h, g.status, g.verified)
    ELSE IF q.kind # "num" THEN Refuse("setTestPlanDescription", h, StatusBadRequest, g.verified)
    ELSE IF ~body.decodes THEN Refuse("setTestPlanDescription", h, StatusBadRequest, g.verified)
    ELSE /\ test_plans' = { IF tp.id = q.val THEN [tp EXCEPT !.description = body.description]
                            ELSE tp : tp \in test_plans }
         /\ resp' = [Response("setTestPlanDescription", h, StatusNoContent, g.verified)
                        EXCEPT !.id = q.val]
         /\ Spend(test_plans' # test_plans)
         /\ UNCHANGED <<now, integration, inflight, browser, nextTestPlanId, otherThanTestPlans, test_reports,
                        nextTestReportId, uuidDb>>

\* getTestSuitesHandler: SELECT id, name, description, created_at
getTestSuitesHandler(h) ==
    LET g == checkRole(h, managerRole) IN
    IF ~g.ok THEN Refuse("getTestSuites", h, g.status, g.verified)
    ELSE ReadOnly([Response("getTestSuites", h, StatusOK, g.verified) EXCEPT
                      !.rows = { [id |-> ts.id, name |-> ts.name,
                                  description |-> ts.description] : ts \in test_suites }])

\* getTestSuiteHandler
getTestSuiteHandler(h, q) ==
    LET g == checkRole(h, managerRole)
        found == { ts \in test_suites : ts.id = q.val } IN
    IF ~g.ok THEN Refuse("getTestSuite", h, g.status, g.verified)
    ELSE IF q.kind # "num" THEN Refuse("getTestSuite", h, StatusBadRequest, g.verified)
    ELSE IF found = {}
         THEN ReadOnly([Response("getTestSuite", h, StatusNotFound, g.verified) EXCEPT !.id = q.val])
    ELSE ReadOnly([Response("getTestSuite", h, StatusOK, g.verified) EXCEPT
                      !.id = q.val,
                      !.rows = { [id |-> ts.id, name |-> ts.name,
                                  description |-> ts.description] : ts \in found }])

\* createTestSuiteHandler: test_suites.project_id is a plain INTEGER
createTestSuiteHandler(h, ts) ==
    LET g == checkRole(h, managerRole) IN
    IF ~g.ok THEN Refuse("createTestSuite", h, g.status, g.verified)
    ELSE IF ~ts.decodes THEN Refuse("createTestSuite", h, StatusBadRequest, g.verified)
    ELSE /\ test_suites' = test_suites \cup
                { [id |-> nextTestSuiteId, project_id |-> ts.project_id, name |-> "suite",
                   description |-> ""] }
         /\ nextTestSuiteId' = nextTestSuiteId + 1
         /\ resp' = [Response("createTestSuite", h, StatusOK, g.verified) EXCEPT
                        !.id = nextTestSuiteId]
         /\ Spend(TRUE)
         /\ UNCHANGED <<now, integration, inflight, browser, otherThanTestSuites, test_reports,
                        nextTestReportId, uuidDb>>

\* DELETE FROM test_suites WHERE id = $1, with test_reports.test_suite_id
\* REFERENCES test_suites(id) ON DELETE SET NULL; test_case_suites has no
\* reference to test_suites
deleteTestSuiteRow(id) ==
    /\ test_suites' = { ts \in test_suites : ts.id # id }
    /\ test_reports' = { IF r.test_suite_id = id /\ (\E ts \in test_suites : ts.id = id)
                         THEN [r EXCEPT !.test_suite_id = Null] ELSE r : r \in test_reports }

\* deleteTestSuiteHandler
deleteTestSuiteHandler(h, q) ==
    LET g == checkRole(h, managerRole) IN
    IF ~g.ok THEN Refuse("deleteTestSuite", h, g.status, g.verified)
    ELSE IF q.kind # "num" THEN Refuse("deleteTestSuite", h, StatusBadRequest, g.verified)
    ELSE /\ deleteTestSuiteRow(q.val)
         /\ resp' = [Response("deleteTestSuite", h, StatusNoContent, g.verified) EXCEPT !.id = q.val]
         /\ Spend(test_suites' # test_suites)
         /\ UNCHANGED <<now, integration, inflight, browser, nextTestSuiteId, otherThanTestSuites,
                        nextTestReportId, uuidDb>>

\* setTestSuiteDescriptionHandler
setTestSuiteDescriptionHandler(h, q, body) ==
    LET g == checkRole(h, managerRole) IN
    IF ~g.ok THEN Refuse("setTestSuiteDescription", h, g.status, g.verified)
    ELSE IF q.kind # "num" THEN Refuse("setTestSuiteDescription", h, StatusBadRequest, g.verified)
    ELSE IF ~body.decodes THEN Refuse("setTestSuiteDescription", h, StatusBadRequest, g.verified)
    ELSE /\ test_suites' = { IF ts.id = q.val THEN [ts EXCEPT !.description = body.description]
                             ELSE ts : ts \in test_suites }
         /\ resp' = [Response("setTestSuiteDescription", h, StatusNoContent, g.verified)
                        EXCEPT !.id = q.val]
         /\ Spend(test_suites' # test_suites)
         /\ UNCHANGED <<now, integration, inflight, browser, nextTestSuiteId, otherThanTestSuites, test_reports,
                        nextTestReportId, uuidDb>>

----------------------------------------------------------------------------
(* Serial-ID backend: associations.                                        *)

otherThanAssociations == <<projects, nextProjectId, test_cases, nextTestCaseId,
                           test_plans, nextTestPlanId, test_suites, nextTestSuiteId,
                           test_reports, nextTestReportId>>

\* a requirement_id parameter: absent, not a UUID (uuid.Parse), or a UUID
ReqParams == { [kind |-> "missing", val |-> ""], [kind |-> "nan", val |-> ""],
               [kind |-> "uuid", val |-> "r1"] }

\* the status the two parameters of an association request are refused
\* with, or StatusOK
pairStatus(a, b) ==
    IF a.kind = "missing" \/ b.kind = "missing" THEN StatusBadRequest
    ELSE IF a.kind = "nan" \/ b.kind = "nan" THEN StatusBadRequest
    ELSE StatusOK

\* addRequirementToTestCaseHandler: INSERT ... ON CONFLICT DO NOTHING
addRequirementToTestCaseHandler(h, tcq, rq) ==
    LET g == checkRole(h, managerRole) IN
    IF ~g.ok THEN Refuse("addRequirementToTestCase", h, g.status, g.verified)
    ELSE IF pairStatus(tcq, rq) # StatusOK
         THEN Refuse("addRequirementToTestCase", h, StatusBadRequest, g.verified)
    ELSE /\ test_case_requirements' = test_case_requirements \cup {<<tcq.val, rq.val>>}
         /\ resp' = [Response("addRequirementToTestCase", h, StatusNoContent, g.verified) EXCEPT
                        !.rows = {<<tcq.val, rq.val>>}]
         /\ Spend(test_case_requirements' # test_case_requirements)
         /\ UNCHANGED <<now, integration, inflight, browser, otherThanAssociations, test_case_suites, uuidDb>>

\* removeRequirementFromTestCaseHandler
removeRequirementFromTestCaseHandler(h, tcq, rq) ==
    LET g == checkRole(h, managerRole) IN
    IF ~g.ok THEN Refuse("removeRequirementFromTestCase", h, g.status, g.verified)
    ELSE IF pairStatus(tcq, rq) # StatusOK
         THEN Refuse("removeRequirementFromTestCase", h, StatusBadRequest, g.verified)
    ELSE /\ test_case_requirements' = test_case_requirements \ {<<tcq.val, rq.val>>}
         /\ resp' = [Response("removeRequirementFromTestCase", h, StatusNoContent, g.verified)
                        EXCEPT !.rows = {<<tcq.val, rq.val>>}]
         /\ Spend(test_case_requirements' # test_case_requirements)
         /\ UNCHANGED <<now, integration, inflight, browser, otherThanAssociations, test_case_suites, uuidDb>>

\* an INSERT without ON CONFLICT DO NOTHING: the primary key refuses a pair
\* that is stored already
addTestCaseToTestSuiteHandlerPlainInsert(h, sq, tcq) ==
    LET g == checkRole(h, managerRole) IN
    IF ~g.ok THEN Refuse("addTestCaseToTestSuite", h, g.status, g.verified)
    ELSE IF pairStatus(sq, tcq) # StatusOK
         THEN Refuse("addTestCaseToTestSuite", h, StatusBadRequest, g.verified)
    ELSE IF <<sq.val, tcq.val>> \in test_case_suites
         THEN ReadOnly([Response("addTestCaseToTestSuite", h, StatusInternalServerError,
                                 g.verified) EXCEPT !.rows = {<<sq.val, tcq.val>>}])
    ELSE /\ test_case_suites' = test_case_suites \cup {<<sq.val, tcq.val>>}
         /\ resp' = [Response("addTestCaseToTestSuite", h, StatusNoContent, g.verified) EXCEPT
                        !.rows = {<<sq.val, tcq.val>>}]
         /\ Spend(TRUE)
         /\ UNCHANGED <<now, integration, inflight, browser, otherThanAssociations, test_case_requirements,
                        uuidDb>>

\* addTestCaseToTestSuiteHandler: INSERT ... ON CONFLICT DO NOTHING
addTestCaseToTestSuiteHandler(h, sq, tcq) ==
    LET g == checkRole(h, managerRole) IN
    IF ~g.ok THEN Refuse("addTestCaseToTestSuite", h, g.status, g.verified)
    ELSE IF pairStatus(sq, tcq) # StatusOK
         THEN Refuse("addTestCaseToTestSuite", h, StatusBadRequest, g.verified)
    ELSE /\ test_case_suites' = test_case_suites \cup {<<sq.val, tcq.val>>}
         /\ resp' = [Response("addTestCaseToTestSuite", h, StatusNoContent, g.verified) EXCEPT
                        !.rows = {<<sq.val, tcq.val>>}]
         /\ Spend(test_case_suites' # test_case_suites)
         /\ UNCHANGED <<now, integration, inflight, browser, otherThanAssociations, test_case_requirements,
                        uuidDb>>

\* removeTestCaseFromTestSuiteHandler
removeTestCaseFromTestSuiteHandler(h, sq, tcq) ==
    LET g == checkRole(h, managerRole) IN
    IF ~g.ok THEN Refuse("removeTestCaseFromTestSuite", h, g.status, g.verified)
    ELSE IF pairStatus(sq, tcq) # StatusOK
         THEN Refuse("removeTestCaseFromTestSuite", h, StatusBadRequest, g.verified)
    ELSE /\ test_case_suites' = test_case_suites \ {<<sq.val, tcq.val>>}
         /\ resp' = [Response("removeTestCaseFromTestSuite", h, StatusNoContent, g.verified)
                        EXCEPT !.rows = {<<sq.val, tcq.val>>}]
         /\ Spend(test_case_suites' # test_case_suites)
         /\ UNCHANGED <<now, integration, inflight, browser, otherThanAssociations, test_case_requirements,
                        uuidDb>>

----------------------------------------------------------------------------
(* Serial-ID backend: requirements, test runs and reports.                 *)

\* the rows of the requirements table; no handler writes it
LocalRequirements == { [uuid |-> "r1", name |-> "local requirement"] }

\* what the external system answers to one call: no answer (the transport
\* fails), or a status and a body that is a JSON list or is not
RemoteReplies ==
    { [up |-> FALSE, status |-> 0, list |-> FALSE],
      [up |-> TRUE, status |-> StatusOK, list |-> TRUE],
      [up |-> TRUE, status |-> StatusInternalServerError, list |-> FALSE],
      [up |-> TRUE, status |-> StatusInternalServerError, list |-> TRUE] }

\* the requirements the external system lists
RodikRequirements == { [uuid |-> "r9", title |-> "remote requirement"] }

\* a getRequirementsHandler that reads the requirements table whatever the flag
getRequirementsHandlerLocalOnly(h, q, remote) ==
    LET g == checkRole(h, managerRole) IN
    IF ~g.ok THEN Refuse("getRequirements", h, g.status, g.verified)
    ELSE IF q.kind # "num" THEN Refuse("getRequirements", h, StatusBadRequest, g.verified)
    ELSE ReadOnly([Response("getRequirements", h, StatusOK, g.verified) EXCEPT
                      !.id = q.val, !.rows = LocalRequirements])

\* getRequirementsHandler: with the -int flag set the project's
\* rodik_project_id is selected (no row: an error) and the external system is
\* asked; its status is not looked at, its body must decode as a list
getRequirementsHandler(h, q, remote) ==
    LET g == checkRole(h, managerRole)
        call == [method |-> "GET", url |-> "/requirements", body |-> {}, reply |-> remote] IN
    IF ~g.ok THEN Refuse("getRequirements", h, g.status, g.verified)
    ELSE IF q.kind # "num" THEN Refuse("getRequirements", h, StatusBadRequest, g.verified)
    ELSE IF integration # ""
    THEN IF ~(\E p \in projects : p.id = q.val)
         THEN ReadOnly([Response("getRequirements", h, StatusInternalServerError, g.verified)
                           EXCEPT !.id = q.val])
         ELSE IF ~remote.up \/ ~remote.list
         THEN ReadOnly([Response("getRequirements", h, StatusInternalServerError, g.verified)
                           EXCEPT !.id = q.val, !.outbound = <<call>>])
         ELSE ReadOnly([Response("getRequirements", h, StatusOK, g.verified) EXCEPT
                           !.id = q.val,
                           !.outbound = <<call>>,
                           !.rows = { [uuid |-> r.uuid, name |-> r.title] :
                                        r \in RodikRequirements }])
    ELSE ReadOnly([Response("getRequirements", h, StatusOK, g.verified) EXCEPT
                      !.id = q.val, !.rows = LocalRequirements])

\* the body of POST /run-tests: not JSON, or the three ids
RunBodies ==
    { [decodes |-> FALSE, project_id |-> 0, test_plan_id |-> 0, test_suite_id |-> 0] }
    \cup { [decodes |-> TRUE, project_id |-> p, test_plan_id |-> tp, test_suite_id |-> ts] :
             p \in 0..MaxId, tp \in 0..MaxId, ts \in 0..MaxId }

\* test_reports.project_id REFERENCES projects(id), test_plan_id REFERENCES
\* test_plans(id), test_suite_id REFERENCES test_suites(id)
reportReferencesHold(r) ==
    /\ \E p \in projects : p.id = r.project_id
    /\ \E tp \in test_plans : tp.id = r.test_plan_id
    /\ \E ts \in test_suites : ts.id = r.test_suite_id

\* a report row without the placeholder result
newReportRowUnfinished(id, data) ==
    [id |-> id, project_id |-> data.project_id, test_plan_id |-> data.test_plan_id,
     test_suite_id |-> data.test_suite_id, passed_percent |-> 0, duration |-> 0]

\* the row INSERT INTO test_reports (...) VALUES ($1, $2, $3, 100, 30) stores
newReportRow(id, data) ==
    [id |-> id, project_id |-> data.project_id, test_plan_id |-> data.test_plan_id,
     test_suite_id |-> data.test_suite_id, passed_percent |-> PlaceholderPassed,
     duration |-> PlaceholderDuration]

\* SELECT test_case_id FROM test_case_suites WHERE test_suite_id = $1, each
\* listed as PASSED
suiteResults(suiteId) ==
    { [id |-> pair[2], status |-> "PASSED"] :
        pair \in { x \in test_case_suites : x[1] = suiteId } }

\* a run that takes its report back when the PATCH cannot be sent
runTestsHandlerUndoingOnError(h, data, remote) ==
    LET g == checkRole(h, managerRole)
        row == newReportRow(nextTestReportId, data)
        call == [method |-> "PATCH", url |-> "/tests",
                 body |-> suiteResults(data.test_suite_id), reply |-> remote]
        sent == integration = ""
    IN
    IF ~g.ok THEN Refuse("runTests", h, g.status, g.verified)
    ELSE IF ~data.decodes THEN Refuse("runTests", h, StatusBadRequest, g.verified)
    ELSE /\ test_reports' = IF reportReferencesHold(row) /\ (sent => remote.up)
                            THEN test_reports \cup {row} ELSE test_reports
         /\ nextTestReportId' = nextTestReportId + 1
         /\ resp' = IF ~reportReferencesHold(row)
                    THEN [Response("runTests", h, StatusInternalServerError, g.verified)
                             EXCEPT !.req = data]
                    ELSE IF ~sent
                    THEN [Response("runTests", h, StatusOK, g.verified) EXCEPT !.req = data]
                    ELSE [Response("runTests", h,
                                   IF remote.up THEN StatusOK ELSE StatusInternalServerError,
                                   g.verified)
                             EXCEPT !.req = data, !.outbound = <<call>>]
         /\ Spend(TRUE)
         /\ UNCHANGED <<now, integration, inflight, browser, projects, nextProjectId, test_cases,
                        nextTestCaseId, test_plans, nextTestPlanId, test_suites,
                        nextTestSuiteId, test_case_suites, test_case_requirements, uuidDb>>

\* runTestsHandler: the INSERT draws its id from the sequence before the
\* references are checked; with the -int flag set the handler returns after
\* the INSERT, without it the handler sends the PATCH
runTestsHandler(h, data, remote) ==
    LET g == checkRole(h, managerRole)
        row == newReportRow(nextTestReportId, data)
        call == [method |-> "PATCH", url |-> "/tests",
                 body |-> suiteResults(data.test_suite_id), reply |-> remote]
    IN
    IF ~g.ok THEN Refuse("runTests", h, g.status, g.verified)
    ELSE IF ~data.decodes THEN Refuse("runTests", h, StatusBadRequest, g.verified)
    ELSE IF ~reportReferencesHold(row)
    THEN /\ nextTestReportId' = nextTestReportId + 1
         /\ resp' = [Response("runTests", h, StatusInternalServerError, g.verified)
                        EXCEPT !.req = data]
         /\ Spend(TRUE)
         /\ UNCHANGED <<now, integration, inflight, browser, projects, nextProjectId, test_cases,
                        nextTestCaseId, test_plans, nextTestPlanId, test_suites,
                        nextTestSuiteId, test_case_suites, test_case_requirements,
                        test_reports, uuidDb>>
    ELSE /\ test_reports' = test_reports \cup {row}
         /\ nextTestReportId' = nextTestReportId + 1
         /\ resp' = IF integration # ""
                    THEN [Response("runTests", h, StatusOK, g.verified) EXCEPT !.req = data]
                    ELSE IF ~remote.up
                    THEN [Response("runTests", h, StatusInternalServerError, g.verified)
                             EXCEPT !.req = data, !.outbound = <<call>>]
                    ELSE [Response("runTests", h, StatusOK, g.verified)
                             EXCEPT !.req = data, !.outbound = <<call>>]
         /\ Spend(TRUE)
         /\ UNCHANGED <<now, integration, inflight, browser, projects, nextProjectId, test_cases,
                        nextTestCaseId, test_plans, nextTestPlanId, test_suites,
                        nextTestSuiteId, test_case_suites, test_case_requirements, uuidDb>>

\* getTestReportsHandler
getTestReportsHandler(h) ==
    LET g == checkRole(h, managerRole) IN
    IF ~g.ok THEN Refuse("getTestReports", h, g.status, g.verified)
    ELSE ReadOnly([Response("getTestReports", h, StatusOK, g.verified) EXCEPT
                      !.rows = test_reports])

----------------------------------------------------------------------------
(* UUID backend.  A UUID is a number: uuid.Nil is 0, the ids a client      *)
(* chooses are 1..MaxId, the ids uuid.New() draws are above GeneratedBase  *)
(* and never repeat.                                                       *)

NilUuid == 0
GeneratedBase == 100
ClientUuids == 1..MaxId

\* uuid.New()
newUuid(k) == GeneratedBase + uuidsDrawn + k

\* the id a row is stored under: the submitted one, or a new one for uuid.Nil
\* (k-th draw of the request)
idOrNew(id, k) == IF id = NilUuid THEN newUuid(k) ELSE id

UuidLoginBodies ==
    { [decodes |-> FALSE, email |-> "", password |-> ""] }
    \cup { [decodes |-> TRUE, email |-> e, password |-> pw] :
             e \in {"man@x", "tes@x", "nobody@x"}, pw \in {"pw-man", "pw-tes"} }

\* loginHandler of the UUID backend: the token carries the user's id
uuidLoginHandler(req) ==
    LET found == { u \in UuidUsers : u.email = req.email /\ u.password = req.password } IN
    IF ~req.decodes THEN Refuse("uuidLogin", NoHeaders, StatusBadRequest, FALSE)
    ELSE IF found = {}
         THEN ReadOnly([Response("uuidLogin", NoHeaders, StatusUnauthorized, FALSE) EXCEPT
                           !.req = req])
    ELSE LET user == CHOOSE u \in found : TRUE IN
         ReadOnly([Response("uuidLogin", NoHeaders, StatusOK, FALSE) EXCEPT
                      !.req = req,
                      !.token = UuidToken(jwtSecretKey, user.id, now + UuidTokenTTL)])

\* the body of POST /projects
UuidProjectBodies ==
    { [decodes |-> FALSE, id |-> NilUuid, name |-> ""] }
    \cup { [decodes |-> TRUE, id |-> i, name |-> "P1"] : i \in {NilUuid} \cup ClientUuids }

\* createProject: projects.id is the PRIMARY KEY
createProject(h, project) ==
    LET g == authenticateAndCheckRole(h, managerRole)
        id == idOrNew(project.id, 1)
        drawn == IF project.id = NilUuid THEN 1 ELSE 0 IN
    IF ~g.ok THEN Refuse("createProject_uuid", h, StatusUnauthorized, g.verified)
    ELSE IF ~project.decodes THEN Refuse("createProject_uuid", h, StatusBadRequest, g.verified)
    ELSE IF \E p \in uProjects : p.id = id
         THEN Refuse("createProject_uuid", h, StatusInternalServerError, g.verified)
    ELSE /\ uProjects' = uProjects \cup {[id |-> id, name |-> project.name, description |-> ""]}
         /\ uuidsDrawn' = uuidsDrawn + drawn
         /\ resp' = [Response("createProject_uuid", h, StatusOK, g.verified) EXCEPT !.id = id]
         /\ Spend(TRUE)
         /\ UNCHANGED <<now, integration, inflight, browser, serialDb, uEntities, uTestCases>>

\* the body of POST /entities
UuidEntityBodies ==
    { [decodes |-> FALSE, id |-> NilUuid, project_id |-> NilUuid] }
    \cup { [decodes |-> TRUE, id |-> i, project_id |-> p] :
             i \in {NilUuid, 1}, p \in ClientUuids }

\* an addEntity that inserts without looking the project up
addEntityWithoutProjectCheck(h, entity) ==
    LET g == authenticateAndCheckRole(h, managerRole)
        id == idOrNew(entity.id, 1)
        drawn == IF entity.id = NilUuid THEN 1 ELSE 0 IN
    IF ~g.ok THEN Refuse("addEntity", h, StatusUnauthorized, g.verified)
    ELSE IF ~entity.decodes THEN Refuse("addEntity", h, StatusBadRequest, g.verified)
    ELSE IF \E e \in uEntities : e.id = id
         THEN ReadOnly([Response("addEntity", h, StatusInternalServerError, g.verified)
                           EXCEPT !.req = entity, !.id = id])
    ELSE /\ uEntities' = uEntities \cup {[id |-> id, name |-> "E", project_id |-> entity.project_id]}
         /\ uuidsDrawn' = uuidsDrawn + drawn
         /\ resp' = [Response("addEntity", h, StatusOK, g.verified) EXCEPT
                        !.req = entity, !.id = id]
         /\ Spend(TRUE)
         /\ UNCHANGED <<now, integration, inflight, browser, serialDb, uProjects, uTestCases>>

\* addEntity: the project is looked up first; entities.id is the PRIMARY KEY
addEntity(h, entity) ==
    LET g == authenticateAndCheckRole(h, managerRole)
        id == idOrNew(entity.id, 1)
        drawn == IF entity.id = NilUuid THEN 1 ELSE 0 IN
    IF ~g.ok THEN Refuse("addEntity", h, StatusUnauthorized, g.verified)
    ELSE IF ~entity.decodes THEN Refuse("addEntity", h, StatusBadRequest, g.verified)
    ELSE IF ~(\E p \in uProjects : p.id = entity.project_id)
         THEN ReadOnly([Response("addEntity", h, StatusNotFound, g.verified)
                           EXCEPT !.req = entity, !.id = id])
    ELSE IF \E e \in uEntities : e.id = id
         THEN ReadOnly([Response("addEntity", h, StatusInternalServerError, g.verified)
                           EXCEPT !.req = entity, !.id = id])
    ELSE /\ uEntities' = uEntities \cup {[id |-> id, name |-> "E", project_id |-> entity.project_id]}
         /\ uuidsDrawn' = uuidsDrawn + drawn
         /\ resp' = [Response("addEntity", h, StatusOK, g.verified) EXCEPT
                        !.req = entity, !.id = id]
         /\ Spend(TRUE)
         /\ UNCHANGED <<now, integration, inflight, browser, serialDb, uProjects, uTestCases>>

\* one element of the body of POST /testcases/batch
UuidBatchItems ==
    { [id |-> i, entity_id |-> 1, project_id |-> p, requirement_id |-> r] :
        i \in {NilUuid, 1}, p \in ClientUuids, r \in {"", "r1"} }

UuidBatches ==
    { [decodes |-> FALSE, items |-> << >>] }
    \cup { [decodes |-> TRUE, items |-> q] : q \in SeqsUpTo(UuidBatchItems, MaxBatch) }

\* how many of the first n items have no id of their own
RECURSIVE nilIdsBefore(_, _)
nilIdsBefore(items, n) ==
    IF n = 0 THEN 0
    ELSE nilIdsBefore(items, n - 1) + (IF items[n].id = NilUuid THEN 1 ELSE 0)

\* the row the i-th stmt.Exec of the loop inserts
uuidBatchRow(items, i) ==
    [id |-> idOrNew(items[i].id, nilIdsBefore(items, i)), name |-> "T",
     entity_id |-> items[i].entity_id, project_id |-> items[i].project_id,
     requirement_id |-> items[i].requirement_id]

\* the i-th stmt.Exec is refused: the id is taken (by a stored row or by an
\* earlier row of the transaction), or entity_id or project_id names no row
uuidInsertRefused(items, i) ==
    LET row == uuidBatchRow(items, i) IN
    \/ \E tc \in uTestCases : tc.id = row.id
    \/ \E j \in 1..(i - 1) : uuidBatchRow(items, j).id = row.id
    \/ ~(\E e \in uEntities : e.id = row.entity_id)
    \/ ~(\E p \in uProjects : p.id = row.project_id)

\* the index of the first statement of the transaction that fails, 0 when
\* none does; n + 1 is tx.Commit()
uuidBatchFirstFailure(items, failAt) ==
    LET n == Len(items)
        refused == { i \in 1..n : uuidInsertRefused(items, i) }
        broken == IF failAt \in 1..(n + 1) THEN {failAt} ELSE {}
        all == refused \cup broken IN
    IF all = {} THEN 0 ELSE CHOOSE i \in all : \A j \in all : i <= j

\* the rows kept if the statements before the failing one were not rolled back
uuidBatchKeptWithoutRollback(items, k) ==
    { uuidBatchRow(items, i) : i \in 1..(IF k = 0 THEN Len(items) ELSE k - 1) }

\* the rows of the transaction the database keeps when its first failure is
\* at k: all of them after a commit, none after the deferred tx.Rollback()
uuidBatchKept(items, k) ==
    IF k = 0 THEN { uuidBatchRow(items, i) : i \in 1..Len(items) } ELSE {}

\* an upload that answers with the rows as stored, ids included
batchUploadTestCasesEchoingStored(h, body, failAt) ==
    LET g == authenticateAndCheckRole(h, testAnalystRole)
        k == uuidBatchFirstFailure(body.items, failAt)
        tried == IF k = 0 THEN Len(body.items) ELSE IF k > Len(body.items) THEN Len(body.items) ELSE k
    IN
    IF ~g.ok THEN Refuse("batchUploadTestCases", h, StatusUnauthorized, g.verified)
    ELSE IF ~body.decodes THEN Refuse("batchUploadTestCases", h, StatusBadRequest, g.verified)
    ELSE /\ uTestCases' = uTestCases \cup uuidBatchKept(body.items, k)
         /\ uuidsDrawn' = uuidsDrawn + nilIdsBefore(body.items, tried)
         /\ resp' = IF k = 0
                    THEN [Response("batchUploadTestCases", h, StatusOK, g.verified) EXCEPT
                             !.req = body,
                             !.id = Len(body.items),
                             !.rows = { [id |-> uuidBatchRow(body.items, i).id, pos |-> i] :
                                          i \in 1..Len(body.items) }]
                    ELSE [Response("batchUploadTestCases", h, StatusInternalServerError,
                                   g.verified) EXCEPT !.id = Len(body.items), !.failedAt = k]
         /\ Spend(uTestCases' # uTestCases \/ uuidsDrawn' # uuidsDrawn)
         /\ UNCHANGED <<now, integration, inflight, browser, serialDb, uProjects, uEntities>>

\* batchUploadTestCases: the response echoes the decoded list
batchUploadTestCases(h, body, failAt) ==
    LET g == authenticateAndCheckRole(h, testAnalystRole)
        k == uuidBatchFirstFailure(body.items, failAt)
        tried == IF k = 0 THEN Len(body.items) ELSE IF k > Len(body.items) THEN Len(body.items) ELSE k
    IN
    IF ~g.ok THEN Refuse("batchUploadTestCases", h, StatusUnauthorized, g.verified)
    ELSE IF ~body.decodes THEN Refuse("batchUploadTestCases", h, StatusBadRequest, g.verified)
    ELSE /\ uTestCases' = uTestCases \cup uuidBatchKept(body.items, k)
         /\ uuidsDrawn' = uuidsDrawn + nilIdsBefore(body.items, tried)
         /\ resp' = IF k = 0
                    THEN [Response("batchUploadTestCases", h, StatusOK, g.verified) EXCEPT
                             !.req = body,
                             !.id = Len(body.items),
                             !.rows = { [id |-> body.items[i].id, pos |-> i] :
                                          i \in 1..Len(body.items) }]
                    ELSE [Response("batchUploadTestCases", h, StatusInternalServerError,
                                   g.verified) EXCEPT !.id = Len(body.items), !.failedAt = k]
         /\ Spend(uTestCases' # uTestCases \/ uuidsDrawn' # uuidsDrawn)
         /\ UNCHANGED <<now, integration, inflight, browser, serialDb, uProjects, uEntities>>

----------------------------------------------------------------------------
(* UUID backend: batchUploadTestCases statement by statement, as other     *)
(* requests see it.  Each connection of the pool runs one upload; a row    *)
(* carries the connection whose statement inserted it.                     *)

Conns == 1..MaxConns

\* a connection that has run no upload yet
NoTx == [phase |-> "idle", headers |-> NoHeaders, items |-> << >>, pos |-> 0,
         pending |-> {}]

\* the row stmt.Exec of connection c inserts for an item
txRow(c, item) ==
    [id |-> idOrNew(item.id, 1), name |-> "T", entity_id |-> item.entity_id,
     project_id |-> item.project_id, requirement_id |-> item.requirement_id,
     conn |-> c]

\* the transaction of connection c ends without a commit: the deferred
\* tx.Rollback() drops its rows, the answer is 500
txAbort(c, at) ==
    /\ inflight' = [inflight EXCEPT ![c].phase = "failed", ![c].pending = {}]
    /\ resp' = [Response("batchUploadTestCases", inflight[c].headers,
                         StatusInternalServerError, TRUE) EXCEPT
                   !.id = Len(inflight[c].items), !.failedAt = at]
    /\ UNCHANGED <<now, writesLeft, integration, browser, serialDb, uuidDb>>

\* a stmt.Exec that writes to the table at once, outside any transaction
txExecAutocommit(c, broken) ==
    LET tx == inflight[c]
        row == txRow(c, tx.items[tx.pos + 1]) IN
    /\ tx.phase = "open"
    /\ tx.pos < Len(tx.items)
    /\ IF \/ broken
          \/ \E tc \in uTestCases : tc.id = row.id
          \/ ~(\E e \in uEntities : e.id = row.entity_id)
          \/ ~(\E p \in uProjects : p.id = row.project_id)
       THEN txAbort(c, tx.pos + 1)
       ELSE /\ inflight' = [inflight EXCEPT ![c].pos = tx.pos + 1,
                                            ![c].pending = tx.pending \cup {row}]
            /\ uTestCases' = uTestCases \cup {row}
            /\ uuidsDrawn' = uuidsDrawn + (IF row.id = tx.items[tx.pos + 1].id THEN 0 ELSE 1)
            /\ UNCHANGED <<now, writesLeft, resp, integration, browser, serialDb, uProjects, uEntities>>

\* batchUploadTestCases up to db.Begin() and tx.Prepare()
txBegin(c, h, body) ==
    LET g == authenticateAndCheckRole(h, testAnalystRole) IN
    /\ inflight[c].phase = "idle"
    /\ IF ~g.ok THEN Refuse("batchUploadTestCases", h, StatusUnauthorized, g.verified)
       ELSE IF ~body.decodes
            THEN Refuse("batchUploadTestCases", h, StatusBadRequest, g.verified)
       ELSE /\ inflight' = [inflight EXCEPT ![c] = [phase |-> "open", headers |-> h,
                                                    items |-> body.items, pos |-> 0,
                                                    pending |-> {}]]
            /\ Spend(TRUE)
            /\ UNCHANGED <<now, resp, integration, browser, serialDb, uuidDb>>

\* one stmt.Exec of the loop: the row is the transaction's own until the
\* commit.  The statement is refused when the id is taken or entity_id or
\* project_id names no row, or the connection breaks; it waits while another
\* open transaction holds a row of the same id.
txExec(c, broken) ==
    LET tx == inflight[c]
        row == txRow(c, tx.items[tx.pos + 1]) IN
    /\ tx.phase = "open"
    /\ tx.pos < Len(tx.items)
    /\ ~(\E d \in Conns \ {c} :
           inflight[d].phase = "open" /\ \E r \in inflight[d].pending : r.id = row.id)
    /\ IF \/ broken
          \/ \E tc \in uTestCases \cup tx.pending : tc.id = row.id
          \/ ~(\E e \in uEntities : e.id = row.entity_id)
          \/ ~(\E p \in uProjects : p.id = row.project_id)
       THEN txAbort(c, tx.pos + 1)
       ELSE /\ inflight' = [inflight EXCEPT ![c].pos = tx.pos + 1,
                                            ![c].pending = tx.pending \cup {row}]
            /\ uuidsDrawn' = uuidsDrawn + (IF row.id = tx.items[tx.pos + 1].id THEN 0 ELSE 1)
            /\ UNCHANGED <<now, writesLeft, resp, integration, browser, serialDb, uProjects,
                           uEntities, uTestCases>>

\* tx.Commit() after the loop: the rows become visible together, and the
\* response echoes the decoded list; a commit that fails stores nothing
txCommit(c, broken) ==
    LET tx == inflight[c] IN
    /\ tx.phase = "open"
    /\ tx.pos = Len(tx.items)
    /\ IF broken THEN txAbort(c, tx.pos + 1)
       ELSE /\ uTestCases' = uTestCases \cup tx.pending
            /\ inflight' = [inflight EXCEPT ![c].phase = "committed"]
            /\ resp' = [Response("batchUploadTestCases", tx.headers, StatusOK, TRUE) EXCEPT
                           !.id = Len(tx.items),
                           !.rows = { [id |-> tx.items[i].id, pos |-> i] :
                                        i \in 1..Len(tx.items) }]
            /\ UNCHANGED <<now, writesLeft, integration, browser, serialDb, uProjects, uEntities,
                           uuidsDrawn>>

\* the body of POST /testcases/run: not JSON, or a list of ids
UuidRunBodies ==
    { [decodes |-> FALSE, test_case_ids |-> {}] }
    \cup { [decodes |-> TRUE, test_case_ids |-> ids] : ids \in SUBSET ClientUuids }

\* runTestCases: a row whose requirement_id is no UUID is skipped by the
\* scan; each other row is passed or failed by the parity of the clock at
\* that moment (failed is the set of rows met at an even second)
runTestCases(h, req, failed) ==
    LET g == authenticateAndCheckRole(h, testerRole)
        found == { tc \in uTestCases : tc.id \in req.test_case_ids /\ tc.requirement_id # "" }
    IN
    IF ~g.ok THEN Refuse("runTestCases", h, StatusUnauthorized, g.verified)
    ELSE IF ~req.decodes THEN Refuse("runTestCases", h, StatusBadRequest, g.verified)
    ELSE IF req.test_case_ids = {} THEN Refuse("runTestCases", h, StatusBadRequest, g.verified)
    ELSE /\ failed \subseteq { tc.id : tc \in found }
         /\ ReadOnly([Response("runTestCases", h, StatusOK, g.verified) EXCEPT
                         !.rows = { [test_case_id |-> tc.id,
                                     status |-> IF tc.id \in failed THEN "failed" ELSE "passed"] :
                                      tc \in found }])

\* getRequirements of the UUID backend: three fixed names
getRequirements(h) ==
    LET g == authenticateAndCheckRole(h, testAnalystRole) IN
    IF ~g.ok THEN Refuse("getRequirements_uuid", h, StatusUnauthorized, g.verified)
    ELSE ReadOnly([Response("getRequirements_uuid", h, StatusOK, g.verified) EXCEPT
                      !.rows = { [name |-> "Requirement 1"], [name |-> "Requirement 2"],
                                 [name |-> "Requirement 3"] }])

\* a DELETE on a schema whose references do not cascade
uuidDeleteProjectOnly(id) ==
    /\ uProjects' = { p \in uProjects : p.id # id }
    /\ UNCHANGED <<uEntities, uTestCases>>

\* DELETE FROM projects WHERE id = $1 on the UUID schema (no handler issues
\* it): entities.project_id and test_cases.project_id REFERENCES projects(id)
\* ON DELETE CASCADE, test_cases.entity_id REFERENCES entities(id) ON DELETE
\* CASCADE
uuidDeleteCascade(id) ==
    LET goneEntities == { e.id : e \in { x \in uEntities : x.project_id = id } } IN
    /\ uProjects' = { p \in uProjects : p.id # id }
    /\ uEntities' = { e \in uEntities : e.project_id # id }
    /\ uTestCases' = { tc \in uTestCases :
                         tc.project_id # id /\ tc.entity_id \notin goneEntities }

\* a project row of the UUID schema is deleted in the database
SqlDeleteProject(id) ==
    /\ \E p \in uProjects : p.id = id
    /\ uuidDeleteCascade(id)
    /\ resp' = [Response("sqlDeleteProject", NoHeaders, 0, FALSE) EXCEPT
                   !.id = id,
                   !.rows = { [id |-> e.id, kind |-> "entity"] : e \in uEntities \ uEntities' }
                            \cup { [id |-> tc.id, kind |-> "test_case"] :
                                     tc \in uTestCases \ uTestCases' }]
    /\ Spend(TRUE)
    /\ UNCHANGED <<now, integration, inflight, browser, serialDb, uuidsDrawn>>

----------------------------------------------------------------------------
(* The UUID backend in the variant whose handlers call no gate, on the     *)
(* same UUID schema.  The headers of the request are kept in the response  *)
(* only; no handler reads them.                                            *)

\* createProject of the variant without gate
createProjectNoGate(h, project) ==
    LET id == idOrNew(project.id, 1)
        drawn == IF project.id = NilUuid THEN 1 ELSE 0 IN
    IF ~project.decodes THEN Refuse("createProject_nogate", h, StatusBadRequest, FALSE)
    ELSE IF \E p \in uProjects : p.id = id
         THEN Refuse("createProject_nogate", h, StatusInternalServerError, FALSE)
    ELSE /\ uProjects' = uProjects \cup {[id |-> id, name |-> project.name]}
         /\ uuidsDrawn' = uuidsDrawn + drawn
         /\ resp' = [Response("createProject_nogate", h, StatusOK, FALSE) EXCEPT !.id = id]
         /\ Spend(TRUE)
         /\ UNCHANGED <<now, integration, inflight, browser, serialDb, uEntities, uTestCases>>

\* addEntity of the variant without gate
addEntityNoGate(h, entity) ==
    LET id == idOrNew(entity.id, 1)
        drawn == IF entity.id = NilUuid THEN 1 ELSE 0 IN
    IF ~entity.decodes THEN Refuse("addEntity_nogate", h, StatusBadRequest, FALSE)
    ELSE IF ~(\E p \in uProjects : p.id = entity.project_id)
         THEN Refuse("addEntity_nogate", h, StatusNotFound, FALSE)
    ELSE IF \E e \in uEntities : e.id = id
         THEN Refuse("addEntity_nogate", h, StatusInternalServerError, FALSE)
    ELSE /\ uEntities' = uEntities \cup {[id |-> id, name |-> "E", project_id |-> entity.project_id]}
         /\ uuidsDrawn' = uuidsDrawn + drawn
         /\ resp' = [Response("addEntity_nogate", h, StatusOK, FALSE) EXCEPT !.id = id]
         /\ Spend(TRUE)
         /\ UNCHANGED <<now, integration, inflight, browser, serialDb, uProjects, uTestCases>>

----------------------------------------------------------------------------
(* The browser client: TokenManager over localStorage, ApiClient.request,  *)
(* the login form and App.  A request is sent with the headers of the      *)
(* moment and answered later; the server's answer is any status.           *)

\* localStorage has no 'current_user'
NoUser == ""

\* the browser on the first visit: nothing stored, App not yet mounted
FirstVisit ==
    [token |-> NoToken, user |-> NoUser, page |-> "loading", pending |-> {},
     last |-> [event |-> "none", endpoint |-> "", status |-> 0]]

\* a clear that removes the token and leaves the user
clearTokenOnly(b) == [b EXCEPT !.token = NoToken]

\* TokenManager.clear
clear(b) == [b EXCEPT !.token = NoToken, !.user = NoUser]

\* ApiClient.getHeaders: Authorization only when a token is stored
getHeaders(b) ==
    IF b.token = NoToken THEN NoHeaders
    ELSE [NoHeaders EXCEPT !.Authorization = Bearer(b.token)]

\* the endpoints the pages call: the login form POST /login, the launch page
\* the data endpoints
PageEndpoints(page) ==
    IF page = "login" THEN {"/login"}
    ELSE IF page = "app" THEN {"/projects", "/run-tests"}
    ELSE {}

\* what the server may answer: for POST /login a token and the user, or an
\* error; for another endpoint a status
ServerReplies(endpoint) ==
    IF endpoint = "/login"
    THEN { [status |-> StatusOK, token |-> generateJWT(u.username, u.role),
            user |-> u.username] : u \in SerialUsers }
         \cup { [status |-> st, token |-> NoToken, user |-> NoUser] :
                  st \in {StatusBadRequest, StatusUnauthorized, StatusInternalServerError} }
    ELSE { [status |-> st, token |-> NoToken, user |-> NoUser] :
             st \in {StatusOK, StatusNoContent, StatusUnauthorized, StatusForbidden,
                     StatusInternalServerError} }

\* ApiClient.request up to fetch: the headers are those of this moment
requestSend(endpoint) ==
    /\ endpoint \in PageEndpoints(browser.page)
    /\ Cardinality(browser.pending) < MaxPending
    /\ browser' = [browser EXCEPT
                      !.pending = @ \cup {[endpoint |-> endpoint,
                                           headers |-> getHeaders(browser)]},
                      !.last = [event |-> "send", endpoint |-> endpoint, status |-> 0]]
    /\ UNCHANGED <<now, writesLeft, resp, integration, serialDb, uuidDb, inflight>>

\* ApiClient.request from the response on, with the rest of handleSubmit for
\* POST /login: a 401 clears the storage and reloads the page, another error
\* is thrown to the caller, a successful login stores the token and the user
\* and shows the launch page
requestReceive(r, reply) ==
    LET answered == [browser EXCEPT
                        !.pending = @ \ {r},
                        !.last = [event |-> "response", endpoint |-> r.endpoint,
                                  status |-> reply.status]] IN
    /\ r \in browser.pending
    /\ reply \in ServerReplies(r.endpoint)
    /\ browser' =
          IF reply.status = StatusUnauthorized
          THEN [clear(answered) EXCEPT !.page = "loading"]
          ELSE IF reply.status \notin {StatusOK, StatusNoContent} THEN answered
          ELSE IF r.endpoint = "/login"
          THEN [answered EXCEPT !.token = reply.token, !.user = reply.user,
                                !.page = IF @ = "login" THEN "app" ELSE @]
          ELSE answered
    /\ UNCHANGED <<now, writesLeft, resp, integration, serialDb, uuidDb, inflight>>

\* handleLogout of App
handleLogout ==
    /\ browser.page = "app"
    /\ browser' = [clear(browser) EXCEPT
                      !.page = "login",
                      !.last = [event |-> "logout", endpoint |-> "", status |-> 0]]
    /\ UNCHANGED <<now, writesLeft, resp, integration, serialDb, uuidDb, inflight>>

\* App mounts (first visit, reload, the redirect after a 401): the requests
\* of the page before are gone, and the stored token and user decide the page
App ==
    /\ browser' = [browser EXCEPT
                      !.pending = {},
                      !.page = IF browser.token # NoToken /\ browser.user # NoUser
                               THEN "app" ELSE "login",
                      !.last = [event |-> "load", endpoint |-> "", status |-> 0]]
    /\ UNCHANGED <<now, writesLeft, resp, integration, serialDb, uuidDb, inflight>>

----------------------------------------------------------------------------
(* The clock.                                                              *)

TickSteps == {1, UuidTokenTTL}
TicksOf(t) == ((t - StartTime) \div UuidTokenTTL) + ((t - StartTime) % UuidTokenTTL)

\* time passes between two requests
Tick(d) ==
    /\ TicksOf(now) < MaxTicks
    /\ now' = now + d
    /\ UNCHANGED <<writesLeft, resp, integration, inflight, browser, serialDb, uuidDb>>

----------------------------------------------------------------------------
(* Initial states.                                                         *)

EmptyDb ==
    /\ now = StartTime
    /\ resp = NoRequest
    /\ projects = {} /\ nextProjectId = 1
    /\ test_cases = {} /\ nextTestCaseId = 1
    /\ test_plans = {} /\ nextTestPlanId = 1
    /\ test_suites = {} /\ nextTestSuiteId = 1
    /\ test_case_suites = {} /\ test_case_requirements = {}
    /\ test_reports = {} /\ nextTestReportId = 1
    /\ uProjects = {} /\ uEntities = {} /\ uTestCases = {} /\ uuidsDrawn = 0
    /\ inflight = [c \in Conns |-> NoTx]
    /\ browser = FirstVisit

InitData == EmptyDb /\ writesLeft = DataWrites /\ integration = ""
InitGate == EmptyDb /\ writesLeft = GateWrites /\ integration = ""
InitUuid == EmptyDb /\ writesLeft = UuidWrites /\ integration = ""
InitRun == EmptyDb /\ writesLeft = RunWrites /\ integration \in {"", "rodik"}
InitAssoc == EmptyDb /\ writesLeft = AssocWrites /\ integration = ""
InitBrowser == EmptyDb /\ writesLeft = 0 /\ integration = ""

----------------------------------------------------------------------------
(* The project endpoints of the serial-ID backend, used by logged-in staff. *)

NextProjects ==
    \/ \E h \in SerialStaffHeadersAt(now) : getProjectsHandler(h)
    \/ \E h \in SerialStaffHeadersAt(now), q \in IdParams : getProjectHandler(h, q)
    \/ \E h \in SerialStaffHeadersAt(now), p \in ProjectBodies : createProjectHandler(h, p)
    \/ \E h \in SerialStaffHeadersAt(now), q \in IdParams : deleteProjectHandler(h, q)
    \/ \E h \in SerialStaffHeadersAt(now), q \in IdParams : archiveProjectHandler(h, q)
    \/ \E h \in SerialStaffHeadersAt(now), q \in IdParams, b \in DateBodies :
          setProjectCompletionDateHandler(h, q, b)
    \/ \E h \in SerialStaffHeadersAt(now), q \in IdParams, b \in DescriptionBodies :
          setProjectDescriptionHandler(h, q, b)

SpecProjects == InitData /\ [][NextProjects]_vars

----------------------------------------------------------------------------
(* The browser client's project lists.                                     *)

\* json.NewEncoder(w).Encode(projects): a slice nothing was appended to is
\* encoded as null
encodeList(rows) == [null |-> rows = {}, items |-> rows]

\* safeArray of dataHelpers.ts
safeArray(value) == IF value.null THEN {} ELSE value.items

\* activeProjects and archivedProjects of TestLaunchPageNew.tsx
activeProjects(projectsData) == { p \in safeArray(projectsData) : ~p.is_archived }
archivedProjects(projectsData) == { p \in safeArray(projectsData) : p.is_archived }

----------------------------------------------------------------------------
(* Reduced request contents.                                               *)

\* the request contents the gate is explored with: for each parameter and
\* body one that is refused and one that is accepted
GateIdParams == {MissingParam, Num(1)}
GateReqParams == { r \in ReqParams : r.kind # "nan" }
GateTestCaseBodies == { b \in TestCaseBodies : b.project_id <= 1 }
GateTestPlanBodies == { b \in TestPlanBodies : b.project_id <= 1 /\ b.deadline = "absent" }
GateEntityBodies == { b \in UuidEntityBodies : b.project_id <= 1 /\ b.id = NilUuid }
GateBatches == { b \in TestCaseBatches : Len(b.items) <= 1 }
GateUuidBatches == { b \in UuidBatches : Len(b.items) <= 1 }
GateRunBodies == { d \in RunBodies : d.test_plan_id = d.project_id /\ d.test_suite_id = d.project_id }
GateReplies == { r \in RemoteReplies : r.up => r.list }

----------------------------------------------------------------------------
(* The batch endpoints of both backends, with what they need.              *)

FailurePoints == 0..(MaxBatch + 1)

NextBatch ==
    \/ \E h \in SerialStaffHeadersAt(now), q \in IdParams, b \in TestCaseBatches,
          f \in FailurePoints : createTestCasesHandler(h, q, b, f)
    \/ \E h \in SerialStaffHeadersAt(now), q \in IdParams : getTestCasesHandler(h, q)
    \/ \E h \in UuidStaffHeadersAt(now), p \in UuidProjectBodies : createProject(h, p)
    \/ \E h \in UuidStaffHeadersAt(now), e \in UuidEntityBodies : addEntity(h, e)
    \/ \E h \in UuidStaffHeadersAt(now), b \in UuidBatches, f \in FailurePoints :
          batchUploadTestCases(h, b, f)

SpecBatch == InitData /\ [][NextBatch]_vars

----------------------------------------------------------------------------
(* The UUID backend and its database.                                      *)

NextUuid ==
    \/ \E req \in UuidLoginBodies : uuidLoginHandler(req)
    \/ \E h \in UuidStaffHeadersAt(now), p \in UuidProjectBodies : createProject(h, p)
    \/ \E h \in UuidStaffHeadersAt(now), e \in UuidEntityBodies : addEntity(h, e)
    \/ \E h \in UuidStaffHeadersAt(now), b \in GateUuidBatches, f \in FailurePoints :
          batchUploadTestCases(h, b, f)
    \/ \E h \in UuidStaffHeadersAt(now), req \in UuidRunBodies, f \in SUBSET ClientUuids :
          runTestCases(h, req, f)
    \/ \E h \in UuidStaffHeadersAt(now) : getRequirements(h)
    \/ \E id \in ClientUuids : SqlDeleteProject(id)

SpecUuid == InitUuid /\ [][NextUuid]_vars

----------------------------------------------------------------------------
(* Test runs of the serial-ID backend, with the rows a report refers to.   *)

RunProjectBodies == { b \in ProjectBodies : b.name # "P2" }
RunTestSuiteBodies == { b \in TestSuiteBodies : b.decodes /\ b.project_id = 1 }
RunTestCaseBodies == { b \in GateTestCaseBodies : b.decodes /\ b.project_id = 1 /\ b.name = "T1" }
RunRequestBodies ==
    { d \in RunBodies : d.project_id <= 1 /\ d.test_plan_id <= 1 /\ d.test_suite_id <= 1 }
RunTestPlanBodies == { b \in GateTestPlanBodies : b.decodes /\ b.project_id = 1 }

NextRun ==
    \/ \E h \in SerialStaffHeadersAt(now), p \in RunProjectBodies : createProjectHandler(h, p)
    \/ \E h \in SerialStaffHeadersAt(now), q \in GateIdParams : deleteProjectHandler(h, q)
    \/ \E h \in SerialStaffHeadersAt(now), tp \in RunTestPlanBodies :
          createTestPlanHandler(h, tp)
    \/ \E h \in SerialStaffHeadersAt(now), ts \in RunTestSuiteBodies :
          createTestSuiteHandler(h, ts)
    \/ \E h \in SerialStaffHeadersAt(now), q \in GateIdParams : deleteTestSuiteHandler(h, q)
    \/ \E h \in SerialStaffHeadersAt(now), q \in GateIdParams : deleteTestPlanHandler(h, q)
    \/ \E h \in SerialStaffHeadersAt(now), tc \in RunTestCaseBodies :
          createTestCaseHandler(h, tc)
    \/ \E h \in SerialStaffHeadersAt(now), sq \in GateIdParams, tcq \in GateIdParams :
          addTestCaseToTestSuiteHandler(h, sq, tcq)
    \/ \E h \in SerialStaffHeadersAt(now), d \in RunRequestBodies, r \in RemoteReplies :
          runTestsHandler(h, d, r)
    \/ \E h \in SerialStaffHeadersAt(now) : getTestReportsHandler(h)
    \/ \E h \in SerialStaffHeadersAt(now), q \in GateIdParams, r \in RemoteReplies :
          getRequirementsHandler(h, q, r)
    \/ \E h \in SerialStaffHeadersAt(now), q \in GateIdParams : getTestCasesHandler(h, q)

SpecRun == InitRun /\ [][NextRun]_vars

----------------------------------------------------------------------------
(* Every endpoint of both backends, under every kind of credentials.       *)

NextGate ==
    \/ \E req \in LoginBodies : loginHandler(req)
    \/ \E h \in SerialHeadersAt(now) : getProjectsHandler(h)
    \/ \E h \in SerialHeadersAt(now), q \in GateIdParams : getProjectHandler(h, q)
    \/ \E h \in SerialHeadersAt(now), p \in ProjectBodies : createProjectHandler(h, p)
    \/ \E h \in SerialHeadersAt(now), q \in GateIdParams : deleteProjectHandler(h, q)
    \/ \E h \in SerialHeadersAt(now), q \in GateIdParams : archiveProjectHandler(h, q)
    \/ \E h \in SerialHeadersAt(now), q \in GateIdParams, b \in DateBodies :
          setProjectCompletionDateHandler(h, q, b)
    \/ \E h \in SerialHeadersAt(now), q \in GateIdParams, b \in DescriptionBodies :
          setProjectDescriptionHandler(h, q, b)
    \/ \E h \in SerialHeadersAt(now), q \in GateIdParams : getTestCasesHandler(h, q)
    \/ \E h \in SerialHeadersAt(now), q \in GateIdParams : getTestCaseHandler(h, q)
    \/ \E h \in SerialHeadersAt(now), tc \in GateTestCaseBodies : createTestCaseHandler(h, tc)
    \/ \E h \in SerialHeadersAt(now), q \in GateIdParams, b \in GateBatches :
          createTestCasesHandler(h, q, b, 0)
    \/ \E h \in SerialHeadersAt(now), q \in GateIdParams : deleteTestCaseHandler(h, q)
    \/ \E h \in SerialHeadersAt(now), q \in GateIdParams, b \in DescriptionBodies :
          setTestCaseDescriptionHandler(h, q, b)
    \/ \E h \in SerialHeadersAt(now), tcq \in GateIdParams, rq \in GateReqParams :
          addRequirementToTestCaseHandler(h, tcq, rq)
    \/ \E h \in SerialHeadersAt(now), tcq \in GateIdParams, rq \in GateReqParams :
          removeRequirementFromTestCaseHandler(h, tcq, rq)
    \/ \E h \in SerialHeadersAt(now) : getTestPlansHandler(h)
    \/ \E h \in SerialHeadersAt(now), q \in GateIdParams : getTestPlanHandler(h, q)
    \/ \E h \in SerialHeadersAt(now), tp \in GateTestPlanBodies : createTestPlanHandler(h, tp)
    \/ \E h \in SerialHeadersAt(now), q \in GateIdParams : deleteTestPlanHandler(h, q)
    \/ \E h \in SerialHeadersAt(now), q \in GateIdParams, b \in DescriptionBodies :
          setTestPlanDescriptionHandler(h, q, b)
    \/ \E h \in SerialHeadersAt(now) : getTestSuitesHandler(h)
    \/ \E h \in SerialHeadersAt(now), q \in GateIdParams : getTestSuiteHandler(h, q)
    \/ \E h \in SerialHeadersAt(now), ts \in TestSuiteBodies : createTestSuiteHandler(h, ts)
    \/ \E h \in SerialHeadersAt(now), q \in GateIdParams : deleteTestSuiteHandler(h, q)
    \/ \E h \in SerialHeadersAt(now), sq \in GateIdParams, tcq \in GateIdParams :
          addTestCaseToTestSuiteHandler(h, sq, tcq)
    \/ \E h \in SerialHeadersAt(now), sq \in GateIdParams, tcq \in GateIdParams :
          removeTestCaseFromTestSuiteHandler(h, sq, tcq)
    \/ \E h \in SerialHeadersAt(now), q \in GateIdParams, b \in DescriptionBodies :
          setTestSuiteDescriptionHandler(h, q, b)
    \/ \E h \in SerialHeadersAt(now), q \in GateIdParams, r \in GateReplies :
          getRequirementsHandler(h, q, r)
    \/ \E h \in SerialHeadersAt(now), d \in GateRunBodies, r \in GateReplies :
          runTestsHandler(h, d, r)
    \/ \E h \in SerialHeadersAt(now) : getTestReportsHandler(h)
    \/ \E req \in UuidLoginBodies : uuidLoginHandler(req)
    \/ \E h \in UuidHeadersAt(now), p \in UuidProjectBodies : createProject(h, p)
    \/ \E h \in UuidHeadersAt(now), e \in GateEntityBodies : addEntity(h, e)
    \/ \E h \in UuidHeadersAt(now), b \in GateUuidBatches : batchUploadTestCases(h, b, 0)
    \/ \E h \in UuidHeadersAt(now), req \in UuidRunBodies, f \in {{}} :
          runTestCases(h, req, f)
    \/ \E h \in UuidHeadersAt(now) : getRequirements(h)

SpecGate == InitGate /\ [][NextGate]_vars

----------------------------------------------------------------------------
(* Logins, the clock and requests that carry a token a login has issued.   *)

\* the values the clock takes
ClockValues ==
    { t \in StartTime..(StartTime + MaxTicks * UuidTokenTTL) : TicksOf(t) <= MaxTicks }

\* the headers of a request that carries the token a login answered with at
\* some moment up to t
IssuedSerialHeadersAt(t) ==
    { [Rodik |-> "", XSecretKey |-> "",
       Authorization |-> Bearer(SerialToken(jwtSecret, u.username, u.role, t0 + SerialTokenTTL))] :
        u \in SerialUsers, t0 \in { c \in ClockValues : c <= t } }

IssuedUuidHeadersAt(t) ==
    { [Rodik |-> "", XSecretKey |-> "",
       Authorization |-> Bearer(UuidToken(jwtSecretKey, u.id, t0 + UuidTokenTTL))] :
        u \in UuidUsers, t0 \in { c \in ClockValues : c <= t } }

NextToken ==
    \/ \E d \in TickSteps : Tick(d)
    \/ \E req \in LoginBodies : loginHandler(req)
    \/ \E req \in UuidLoginBodies : uuidLoginHandler(req)
    \/ \E h \in IssuedSerialHeadersAt(now) : getProjectsHandler(h)
    \/ \E h \in IssuedSerialHeadersAt(now), p \in RunProjectBodies : createProjectHandler(h, p)
    \/ \E h \in IssuedSerialHeadersAt(now), q \in GateIdParams : deleteProjectHandler(h, q)
    \/ \E h \in IssuedUuidHeadersAt(now), p \in UuidProjectBodies : createProject(h, p)
    \/ \E h \in IssuedUuidHeadersAt(now) : getRequirements(h)

SpecToken == InitGate /\ [][NextToken]_vars

----------------------------------------------------------------------------
(* Batch uploads running side by side with readers.                        *)

TxProjectBodies == { p \in UuidProjectBodies : p.decodes /\ p.id = 1 }
TxEntityBodies == { e \in UuidEntityBodies : e.decodes /\ e.id = 1 /\ e.project_id = 1 }
TxBatches ==
    { b \in UuidBatches :
        \A i \in 1..Len(b.items) :
           b.items[i].project_id = 1 /\ b.items[i].requirement_id = "r1" }
TxRunBodies == { req \in UuidRunBodies : req.decodes }

NextTx ==
    \/ \E h \in UuidStaffHeadersAt(now), p \in TxProjectBodies : createProject(h, p)
    \/ \E h \in UuidStaffHeadersAt(now), e \in TxEntityBodies : addEntity(h, e)
    \/ \E c \in Conns, h \in UuidStaffHeadersAt(now), b \in TxBatches : txBegin(c, h, b)
    \/ \E c \in Conns, broken \in BOOLEAN : txExec(c, broken)
    \/ \E c \in Conns, broken \in BOOLEAN : txCommit(c, broken)
    \/ \E h \in UuidStaffHeadersAt(now), req \in TxRunBodies : runTestCases(h, req, {})
    \/ \E h \in SerialStaffHeadersAt(now), q \in GateIdParams, b \in GateBatches :
          createTestCasesHandler(h, q, b, 0)
    \/ \E h \in SerialStaffHeadersAt(now), q \in GateIdParams : getTestCasesHandler(h, q)

SpecTx == InitUuid /\ [][NextTx]_vars

----------------------------------------------------------------------------
(* The association endpoints of the serial-ID backend, with the rows the   *)
(* pairs name and a test run over them.                                    *)

AssocHeaders ==
    { h \in SerialStaffHeadersAt(StartTime) : h.Authorization # NoAuth }
AssocIds == { q \in IdParams : q.kind = "num" /\ q.val >= 1 }
AssocReqs == { r \in ReqParams : r.kind = "uuid" }
AssocRunBodies ==
    { d \in RunBodies : d.decodes /\ d.project_id = 1 /\ d.test_plan_id = 1 /\ d.test_suite_id = 1 }
AssocReplies == { r \in RemoteReplies : r.up /\ r.status = StatusOK }

NextAssoc ==
    \/ \E h \in AssocHeaders, p \in RunProjectBodies : createProjectHandler(h, p)
    \/ \E h \in AssocHeaders, tp \in RunTestPlanBodies : createTestPlanHandler(h, tp)
    \/ \E h \in AssocHeaders, ts \in RunTestSuiteBodies : createTestSuiteHandler(h, ts)
    \/ \E h \in AssocHeaders, tc \in RunTestCaseBodies : createTestCaseHandler(h, tc)
    \/ \E h \in AssocHeaders, q \in AssocIds : deleteTestCaseHandler(h, q)
    \/ \E h \in AssocHeaders, q \in AssocIds : deleteTestSuiteHandler(h, q)
    \/ \E h \in AssocHeaders, sq \in AssocIds, tcq \in AssocIds :
          addTestCaseToTestSuiteHandler(h, sq, tcq)
    \/ \E h \in AssocHeaders, sq \in AssocIds, tcq \in AssocIds :
          removeTestCaseFromTestSuiteHandler(h, sq, tcq)
    \/ \E h \in AssocHeaders, tcq \in AssocIds, rq \in AssocReqs :
          addRequirementToTestCaseHandler(h, tcq, rq)
    \/ \E h \in AssocHeaders, tcq \in AssocIds, rq \in AssocReqs :
          removeRequirementFromTestCaseHandler(h, tcq, rq)
    \/ \E h \in AssocHeaders, d \in AssocRunBodies, r \in AssocReplies :
          runTestsHandler(h, d, r)

SpecAssoc == InitAssoc /\ [][NextAssoc]_vars

----------------------------------------------------------------------------
(* The browser client against a server that answers anything.              *)

BrowserEndpoints == {"/login", "/projects", "/run-tests"}
BrowserRequests ==
    { [endpoint |-> e, headers |-> h] :
        e \in BrowserEndpoints,
        h \in {NoHeaders} \cup { [NoHeaders EXCEPT !.Authorization =
                                    Bearer(generateJWT(u.username, u.role))] :
                                   u \in SerialUsers } }

BrowserReplies == UNION { ServerReplies(e) : e \in BrowserEndpoints }

NextBrowser ==
    \/ \E e \in BrowserEndpoints : requestSend(e)
    \/ \E r \in BrowserRequests, reply \in BrowserReplies : requestReceive(r, reply)
    \/ \E e \in {"logout"} : handleLogout
    \/ \E e \in {"load"} : App

SpecBrowser == InitBrowser /\ [][NextBrowser]_vars

----------------------------------------------------------------------------
(* The variant without gate.                                               *)

NextNoGate ==
    \/ \E h \in UuidStaffHeadersAt(now), p \in UuidProjectBodies : createProjectNoGate(h, p)
    \/ \E h \in UuidStaffHeadersAt(now), e \in UuidEntityBodies : addEntityNoGate(h, e)

SpecNoGate == InitUuid /\ [][NextNoGate]_vars

----------------------------------------------------------------------------
(* Properties of the gates.                                                *)

\* the handlers that call checkRole, and the handlers that call
\* authenticateAndCheckRole with the role each passes
SerialGated ==
    {"getProjects", "getProject", "createProject", "deleteProject", "archiveProject",
     "setProjectCompletionDate", "setProjectDescription", "getTestCases", "getTestCase",
     "createTestCase", "createTestCases", "deleteTestCase", "setTestCaseDescription",
     "getTestPlans", "getTestPlan", "createTestPlan", "deleteTestPlan",
     "setTestPlanDescription", "getTestSuites", "getTestSuite", "createTestSuite",
     "deleteTestSuite", "setTestSuiteDescription", "addRequirementToTestCase",
     "removeRequirementFromTestCase", "addTestCaseToTestSuite",
     "removeTestCaseFromTestSuite", "getRequirements", "runTests", "getTestReports"}

UuidGated ==
    {"createProject_uuid", "addEntity", "batchUploadTestCases", "runTestCases",
     "getRequirements_uuid"}

UuidRequiredRole(handler) ==
    CASE handler \in {"createProject_uuid", "addEntity"} -> managerRole
      [] handler \in {"batchUploadTestCases", "getRequirements_uuid"} -> testAnalystRole
      [] OTHER -> testerRole

\* r answers a request without the bypass header whose token is the server's,
\* not expired, and of a user whose role is not the handler's
SerialWrongRole(r) ==
    /\ r.handler \in SerialGated
    /\ r.headers.Rodik = ""
    /\ r.headers.Authorization.scheme = "Bearer"
    /\ r.headers.Authorization.token.key = jwtSecret
    /\ now < r.headers.Authorization.token.exp
    /\ r.headers.Authorization.token.role # managerRole

UuidWrongRole(r) ==
    /\ r.handler \in UuidGated
    /\ r.headers.XSecretKey # bypassSecretKey
    /\ r.headers.Authorization.scheme = "Bearer"
    /\ r.headers.Authorization.token.key = jwtSecretKey
    /\ now < r.headers.Authorization.token.exp
    /\ \E u \in UuidUsers : /\ u.id = r.headers.Authorization.token.sub
                            /\ u.role # UuidRequiredRole(r.handler)

\* C1: on every gated endpoint of either backend, a request whose token is
\* validly signed and unexpired but of another role than the handler requires
\* is answered 403.
C1_WrongRoleForbidden ==
    (SerialWrongRole(resp) \/ UuidWrongRole(resp)) => resp.status = StatusForbidden

\* the request r' answers carries no bypass header and no Authorization
\* header, or a token of another key, or an expired token
Unauthenticated(r, key, t) ==
    \/ r.headers.Authorization = NoAuth
    \/ /\ r.headers.Authorization.scheme = "Bearer"
       /\ \/ r.headers.Authorization.token.key # key
          \/ r.headers.Authorization.token.exp < t

SerialUnauthenticated(r, t) ==
    r.handler \in SerialGated /\ r.headers.Rodik = "" /\ Unauthenticated(r, jwtSecret, t)

UuidUnauthenticated(r, t) ==
    /\ r.handler \in UuidGated
    /\ r.headers.XSecretKey # bypassSecretKey
    /\ Unauthenticated(r, jwtSecretKey, t)

\* C2: a request to a gated endpoint without the bypass header and with no
\* Authorization header, a token of an invalid signature or an expired token
\* is answered 401, and no table of either database changes in that step.
C2_UnauthenticatedRejected ==
    [][ (SerialUnauthenticated(resp', now') \/ UuidUnauthenticated(resp', now')) =>
          /\ resp'.status = StatusUnauthorized
          /\ UNCHANGED <<serialDb, uuidDb>> ]_vars

\* an expired manager token is refused by POST /project while a project is stored
C2_Witness ==
    /\ resp.handler = "createProject"
    /\ resp.status = StatusUnauthorized
    /\ resp.headers.Rodik = ""
    /\ resp.headers.Authorization.scheme = "Bearer"
    /\ resp.headers.Authorization.token.key = jwtSecret
    /\ resp.headers.Authorization.token.role = managerRole
    /\ resp.headers.Authorization.token.exp < now
    /\ projects # {}

\* the request r answers carries the bypass header of its backend
BypassPresent(r) ==
    \/ r.handler \in SerialGated /\ r.headers.Rodik # ""
    \/ r.handler \in UuidGated /\ r.headers.XSecretKey = bypassSecretKey

\* C3: a request with the bypass header passes the gate of every protected
\* endpoint (it is answered neither 401 nor 403) whatever its Authorization
\* header, and its token is not verified.
C3_BypassSkipsGate ==
    BypassPresent(resp) =>
        /\ resp.status \notin {StatusUnauthorized, StatusForbidden}
        /\ ~resp.verified

\* POST /projects of the UUID backend stores a project for a request with
\* the bypass key and a forged token
C3_Witness ==
    /\ resp.handler = "createProject_uuid"
    /\ resp.headers.XSecretKey = bypassSecretKey
    /\ resp.headers.Authorization.scheme = "Bearer"
    /\ resp.headers.Authorization.token.key # jwtSecretKey
    /\ resp.status = StatusOK
    /\ uProjects # {}

\* the stored users a login request matches
SerialMatches(req) ==
    { u \in SerialUsers : u.username = req.username /\ u.password = req.password }
UuidMatches(req) ==
    { u \in UuidUsers : u.email = req.email /\ u.password = req.password }

\* the answer of the serial-ID backend's POST /login: a token of the server's
\* key with the stored role, or 401 without a token
SerialLoginAnswer(r) ==
    (r.handler = "login" /\ r.req.decodes) =>
        IF SerialMatches(r.req) # {}
        THEN /\ r.status = StatusOK
             /\ r.token.key = jwtSecret
             /\ \A u \in SerialMatches(r.req) :
                    r.token.sub = u.username /\ r.token.role = u.role
        ELSE r.status = StatusUnauthorized /\ r.token = NoToken

\* C4 (as stated): POST /login with matching credentials returns a token of
\* the server's key whose claims embed the user's stored role, in both
\* backends; any other credentials are answered 401 without a token.
C4_TokenEmbedsRole ==
    /\ SerialLoginAnswer(resp)
    /\ (resp.handler = "uuidLogin" /\ resp.req.decodes) =>
           IF UuidMatches(resp.req) # {}
           THEN /\ resp.status = StatusOK
                /\ resp.token.key = jwtSecretKey
                /\ \A u \in UuidMatches(resp.req) : resp.token.role = u.role
           ELSE resp.status = StatusUnauthorized /\ resp.token = NoToken

\* C4 (amended): the serial-ID backend's token embeds the stored role; the
\* UUID backend's token embeds the user's id and no role; any other
\* credentials are answered 401 without a token.
C4_TokenEmbedsRoleOrUserId ==
    /\ SerialLoginAnswer(resp)
    /\ (resp.handler = "uuidLogin" /\ resp.req.decodes) =>
           IF UuidMatches(resp.req) # {}
           THEN /\ resp.status = StatusOK
                /\ resp.token.key = jwtSecretKey
                /\ \A u \in UuidMatches(resp.req) :
                       resp.token.sub = u.id /\ resp.token.role = ""
           ELSE resp.status = StatusUnauthorized /\ resp.token = NoToken

\* the tester of the serial-ID backend has logged in
C4_Witness ==
    /\ resp.handler = "login"
    /\ resp.status = StatusOK
    /\ resp.req.username = "tina"
    /\ resp.token.role = testerRole

----------------------------------------------------------------------------
(* Properties of the data handlers.                                        *)

\* a batch request of n items answered r: all n rows are new in the table
\* and the answer is a success listing n items, or no row is new and the
\* answer is an error listing none
AllOrNothing(r, n, before, after) ==
    /\ before \subseteq after
    /\ \/ /\ r.status = StatusOK
          /\ Cardinality(after \ before) = n
          /\ Cardinality(r.rows) = n
       \/ /\ r.status >= StatusBadRequest
          /\ after = before
          /\ r.rows = {}

\* C5: a batch of N test cases is all-or-nothing in both backends: after the
\* request either all N rows are stored and the answer is a success, or none
\* is stored and the answer is an error without ids; a failure at the k-th
\* insert leaves none of the first k-1 rows.
C5_BatchAllOrNothing ==
    [][ /\ resp'.handler = "batchUploadTestCases" =>
               AllOrNothing(resp', resp'.id, uTestCases, uTestCases')
        /\ resp'.handler = "createTestCases" =>
               AllOrNothing(resp', resp'.id, test_cases, test_cases') ]_vars

\* the second insert of a batch of two failed in the UUID backend
C5_Witness ==
    /\ resp.handler = "batchUploadTestCases"
    /\ resp.id = 2
    /\ resp.failedAt = 2
    /\ resp.status = StatusInternalServerError

\* the columns of a project that POST /project sets from the request
SameProject(p, q) ==
    p.id = q.id /\ p.name = q.name /\ p.responsible_name = q.responsible_name

\* C6: a successful POST /project answers with the id of the new project,
\* which no other project has, and every GET /projects lists each stored
\* project with its id, name and responsible_name; a project stays stored
\* with these until DELETE /project of its id.
C6_CreatedProjectListed ==
    /\ []((resp.handler = "createProject" /\ resp.status = StatusOK) =>
            /\ Cardinality({ p \in projects : p.id = resp.id }) = 1
            /\ \A p \in projects : p.id = resp.id =>
                   /\ p.name = resp.req.name
                   /\ p.responsible_name = resp.req.responsible_name)
    /\ []((resp.handler = "getProjects" /\ resp.status = StatusOK) =>
            \A p \in projects : \E r \in resp.rows : SameProject(p, r))
    /\ [][ /\ (resp'.handler = "createProject" /\ resp'.status = StatusOK) =>
                  \A p \in projects : p.id # resp'.id
           /\ \A p \in projects :
                  \/ \E q \in projects' : SameProject(p, q)
                  \/ resp'.handler = "deleteProject" /\ resp'.id = p.id ]_vars

\* GET /projects lists two projects, the first of them archived
C6_Witness ==
    /\ resp.handler = "getProjects"
    /\ resp.status = StatusOK
    /\ Cardinality(resp.rows) = 2
    /\ \E r \in resp.rows : r.id = 1 /\ r.name = "P1" /\ r.is_archived

\* C7: POST /project/archive on a stored project leaves it stored with
\* is_archived = TRUE, listed by GET /projects, outside the client's active
\* projects and among its archived projects; every other project is as it was.
C7_ArchiveMovesProject ==
    [][ (/\ resp'.handler = "archiveProject"
         /\ resp'.status = StatusNoContent
         /\ \E p \in projects : p.id = resp'.id) =>
          LET projectsData == encodeList(selectProjects') IN
          /\ \E p \in projects' : p.id = resp'.id
          /\ \A p \in projects' : p.id = resp'.id =>
                 /\ p.is_archived
                 /\ p \in safeArray(projectsData)
                 /\ p \notin activeProjects(projectsData)
                 /\ p \in archivedProjects(projectsData)
          /\ \A p \in projects : p.id # resp'.id => p \in projects' ]_vars

\* a project is archived while another one stays active
C7_Witness ==
    /\ resp.handler = "archiveProject"
    /\ resp.status = StatusNoContent
    /\ \E p \in projects, q \in projects :
          /\ p.id = resp.id /\ p.is_archived
          /\ q.id # p.id /\ ~q.is_archived
          /\ q \in activeProjects(encodeList(selectProjects))
          /\ p \in archivedProjects(encodeList(selectProjects))

\* C8: in the UUID schema, once a project row is deleted no entity and no
\* test case has that project as project_id.
C8_DeleteCascades ==
    resp.handler = "sqlDeleteProject" =>
        /\ \A p \in uProjects : p.id # resp.id
        /\ \A e \in uEntities : e.project_id # resp.id
        /\ \A tc \in uTestCases : tc.project_id # resp.id

\* a project was deleted that had an entity and a test case
C8_Witness ==
    /\ resp.handler = "sqlDeleteProject"
    /\ \E r \in resp.rows : r.kind = "entity"
    /\ \E r \in resp.rows : r.kind = "test_case"

\* C9: in every reachable state of either backend, every test case's
\* project_id is the id of a stored project.
C9_TestCaseProjectExists ==
    /\ \A tc \in test_cases : \E p \in projects : p.id = tc.project_id
    /\ \A tc \in uTestCases : \E p \in uProjects : p.id = tc.project_id

\* the report rows a POST /run-tests with body d added: exactly one, with
\* d's ids, passed 100 and duration 30
OneReportOf(d, before, after) ==
    /\ before \subseteq after
    /\ Cardinality(after \ before) = 1
    /\ \A r \in after \ before :
          /\ r.project_id = d.project_id
          /\ r.test_plan_id = d.test_plan_id
          /\ r.test_suite_id = d.test_suite_id
          /\ r.passed_percent = 100
          /\ r.duration = 30

\* C10 (as stated): every POST /run-tests that passes the gate and decodes
\* its body adds exactly one test_reports row with the request's ids, passed
\* 100 and duration 30, with the -int flag set or not.
C10_RunCreatesReport ==
    [][ (resp'.handler = "runTests" /\ resp'.req.decodes) =>
          OneReportOf(resp'.req, test_reports, test_reports') ]_vars

\* C10 (amended): such a call adds that one row when its project, test plan
\* and test suite ids are ids of stored rows; otherwise it is answered 500
\* and test_reports is unchanged.
C10_RunCreatesReportForStoredIds ==
    [][ (resp'.handler = "runTests" /\ resp'.req.decodes) =>
          IF /\ \E p \in projects : p.id = resp'.req.project_id
             /\ \E tp \in test_plans : tp.id = resp'.req.test_plan_id
             /\ \E ts \in test_suites : ts.id = resp'.req.test_suite_id
          THEN OneReportOf(resp'.req, test_reports, test_reports')
          ELSE /\ resp'.status = StatusInternalServerError
               /\ test_reports' = test_reports ]_vars

\* a run with the -int flag set has stored its report and sent nothing
C10_Witness ==
    /\ resp.handler = "runTests"
    /\ resp.status = StatusOK
    /\ integration # ""
    /\ resp.outbound = << >>
    /\ \E r \in test_reports : r.id = nextTestReportId - 1 /\ r.passed_percent = 100

----------------------------------------------------------------------------
(* Properties of test runs, reports and the external system.               *)

\* C11: a test report is immutable: while its row exists, no step changes
\* its project_id, test_plan_id, test_suite_id, passed value or duration.
C11_ReportImmutable ==
    [][ \A r \in test_reports : \A later \in test_reports' :
          later.id = r.id =>
              /\ later.project_id = r.project_id
              /\ later.test_plan_id = r.test_plan_id
              /\ later.test_suite_id = r.test_suite_id
              /\ later.passed_percent = r.passed_percent
              /\ later.duration = r.duration ]_vars

\* the test case rows linked to a suite
casesOfSuite(suiteId) ==
    { tc \in test_cases : <<suiteId, tc.id>> \in test_case_suites }

\* C12: without the -int flag, after a successful POST /run-tests every test
\* case of the suite has a status set by the run: passed or failed, no
\* longer not_run.
C12_RunSetsStatus ==
    (resp.handler = "runTests" /\ resp.status = StatusOK /\ integration = "") =>
        \A tc \in casesOfSuite(resp.req.test_suite_id) : tc.status \in {"passed", "failed"}

\* C13: with the -int flag set, a successful POST /run-tests has stored the
\* report and sent exactly one PATCH listing every test case of the suite as
\* PASSED; without the flag it has sent nothing.
C13_PatchOnlyInIntegration ==
    (resp.handler = "runTests" /\ resp.status = StatusOK) =>
        IF integration # ""
        THEN /\ \E r \in test_reports : r.id = nextTestReportId - 1
             /\ Len(resp.outbound) = 1
             /\ resp.outbound[1].method = "PATCH"
             /\ resp.outbound[1].body =
                    { [id |-> pair[2], status |-> "PASSED"] :
                        pair \in { x \in test_case_suites : x[1] = resp.req.test_suite_id } }
        ELSE resp.outbound = << >>

\* C14: with the -int flag set GET /requirements returns no row of the local
\* requirements table, and when it succeeds it has selected the project and
\* asked the external system once, returning its requirements with title as
\* name; without the flag it returns the local rows and calls nobody.
C14_RequirementsSource ==
    (resp.handler = "getRequirements"
        /\ resp.status \notin {StatusBadRequest, StatusUnauthorized, StatusForbidden}) =>
        IF integration # ""
        THEN /\ resp.rows \cap LocalRequirements = {}
             /\ resp.status = StatusOK =>
                    /\ \E p \in projects : p.id = resp.id
                    /\ Len(resp.outbound) = 1
                    /\ resp.outbound[1].method = "GET"
                    /\ resp.rows = { [uuid |-> rr.uuid, name |-> rr.title] :
                                       rr \in RodikRequirements }
        ELSE /\ resp.status = StatusOK
             /\ resp.rows = LocalRequirements
             /\ resp.outbound = << >>

\* the requirements of project 1 came from the external system
C14_Witness ==
    /\ integration # ""
    /\ resp.handler = "getRequirements"
    /\ resp.status = StatusOK
    /\ resp.id = 1
    /\ \E r \in resp.rows : r.name = "remote requirement"

\* C15: a failed call to the external system (no answer, or an answer with
\* an error status), during the requirements fetch or the PATCH, makes the
\* handler answer 500.
C15_RemoteErrorIs500 ==
    \A i \in 1..Len(resp.outbound) :
        (~resp.outbound[i].reply.up \/ resp.outbound[i].reply.status >= StatusBadRequest) =>
            resp.status = StatusInternalServerError

----------------------------------------------------------------------------
(* Properties of issued tokens.                                            *)

\* the token of a request to a gated handler
tokenOf(r) == r.headers.Authorization.token

\* r answers a request whose token the login of its backend issues to a
\* stored user who has the role the handler requires
SerialStaffToken(r) ==
    /\ r.handler \in SerialGated
    /\ tokenOf(r).key = jwtSecret
    /\ \E u \in SerialUsers : tokenOf(r).sub = u.username /\ tokenOf(r).role = u.role
UuidStaffToken(r) ==
    /\ r.handler \in UuidGated
    /\ tokenOf(r).key = jwtSecretKey
    /\ \E u \in UuidUsers : tokenOf(r).sub = u.id

\* C16: a token a login issues expires 24 hours (serial-ID backend: 2 units
\* of the clock) or 365 days (UUID backend: 730 units) after the login; at
\* every moment before its expiry the gate accepts it for a handler of the
\* user's role, at every moment after it the gate answers 401, whatever
\* requests were served in between.
C16_TokenValidUntilExpiry ==
    [][ now' = now =>
          /\ (resp'.handler = "login" /\ resp'.status = StatusOK) =>
                 resp'.token.exp = now + 2
          /\ (resp'.handler = "uuidLogin" /\ resp'.status = StatusOK) =>
                 resp'.token.exp = now + 730
          /\ SerialStaffToken(resp') =>
                 /\ (now < tokenOf(resp').exp /\ tokenOf(resp').role = managerRole) =>
                        resp'.status \notin {StatusUnauthorized, StatusForbidden}
                 /\ now > tokenOf(resp').exp => resp'.status = StatusUnauthorized
          /\ UuidStaffToken(resp') =>
                 /\ (now < tokenOf(resp').exp
                       /\ UuidRequiredRole(resp'.handler) \in uuidUserRoles(tokenOf(resp').sub)) =>
                        resp'.status \notin {StatusUnauthorized, StatusForbidden}
                 /\ now > tokenOf(resp').exp => resp'.status = StatusUnauthorized ]_vars

\* the token the manager got at the start is refused after its expiry, with
\* a project stored in between
C16_Witness ==
    /\ resp.handler = "getProjects"
    /\ tokenOf(resp).sub = "admin"
    /\ tokenOf(resp).exp = StartTime + SerialTokenTTL
    /\ now > tokenOf(resp).exp
    /\ resp.status = StatusUnauthorized
    /\ projects # {}

----------------------------------------------------------------------------
(* Properties of the route tables.                                         *)

\* the handlers of the endpoints other than the logins
Endpoints == SerialGated \cup UuidGated \cup {"createProject_nogate", "addEntity_nogate"}

\* r answers a request that carries the bypass header of its backend, or a
\* token the backend's gate takes as valid and of the role the handler
\* requires (for a handler without gate: of any stored user)
Authorized(r, t) ==
    IF r.handler \in SerialGated
    THEN \/ r.headers.Rodik # ""
         \/ /\ r.headers.Authorization.scheme = "Bearer"
            /\ tokenOf(r).key = jwtSecret
            /\ t <= tokenOf(r).exp
            /\ tokenOf(r).role = managerRole
    ELSE \/ r.headers.XSecretKey = bypassSecretKey
         \/ /\ r.headers.Authorization.scheme = "Bearer"
            /\ tokenOf(r).key = jwtSecretKey
            /\ t < tokenOf(r).exp
            /\ IF r.handler \in UuidGated
               THEN UuidRequiredRole(r.handler) \in uuidUserRoles(tokenOf(r).sub)
               ELSE uuidUserRoles(tokenOf(r).sub) # {}

\* C17: every endpoint other than the logins is behind the gate: a request
\* with neither the bypass header nor a valid token of the required role
\* changes no table, in any backend.
C17_GateProtectsDatabase ==
    [][ (now' = now /\ resp'.handler \in Endpoints /\ ~Authorized(resp', now)) =>
          UNCHANGED <<serialDb, uuidDb>> ]_vars

----------------------------------------------------------------------------
(* Properties of the by-id handlers of the serial-ID backend.              *)

\* r answers a request that passed the gate and carried a numeric id
ReachedStatement(r) ==
    r.status \notin {StatusBadRequest, StatusUnauthorized, StatusForbidden}

\* what SELECT ... WHERE id = $1 of the by-id read finds
selectedById(handler, id) ==
    CASE handler = "getProject" -> { p \in projects : p.id = id }
      [] handler = "getTestCase" -> { tc \in test_cases : tc.id = id }
      [] handler = "getTestPlan" -> { tp \in test_plans : tp.id = id }
      [] handler = "getTestSuite" ->
            { [id |-> ts.id, name |-> ts.name, description |-> ts.description] :
                ts \in { x \in test_suites : x.id = id } }

\* C18: a GET by id of a project, test case, test plan or test suite answers
\* 404 when no row has the id and 200 with the row when one has.
C18_GetById ==
    (resp.handler \in {"getProject", "getTestCase", "getTestPlan", "getTestSuite"}
       /\ ReachedStatement(resp)) =>
      IF selectedById(resp.handler, resp.id) = {}
      THEN resp.status = StatusNotFound /\ resp.rows = {}
      ELSE /\ resp.status = StatusOK
           /\ resp.rows = selectedById(resp.handler, resp.id)
           /\ Cardinality(resp.rows) = 1

C18_Witness ==
    /\ resp.handler = "getTestPlan"
    /\ resp.status = StatusOK
    /\ \E tp \in resp.rows : tp.id = resp.id
    /\ test_suites = {}

\* the ids of the rows of the table a by-id mutation addresses
addressedIds(handler) ==
    CASE handler \in {"deleteProject", "archiveProject", "setProjectCompletionDate",
                      "setProjectDescription"} -> { p.id : p \in projects }
      [] handler \in {"deleteTestCase", "setTestCaseDescription"} ->
            { tc.id : tc \in test_cases }
      [] handler \in {"deleteTestPlan", "setTestPlanDescription"} ->
            { tp.id : tp \in test_plans }
      [] handler \in {"deleteTestSuite", "setTestSuiteDescription"} ->
            { ts.id : ts \in test_suites }

ByIdMutations ==
    {"deleteProject", "archiveProject", "setProjectCompletionDate", "setProjectDescription",
     "deleteTestCase", "setTestCaseDescription", "deleteTestPlan", "setTestPlanDescription",
     "deleteTestSuite", "setTestSuiteDescription"}

\* C19: a delete, archive, set-description or set-completion-date whose id
\* matches no row answers 404 and leaves the database unchanged.
C19_MissingRowIs404 ==
    [][ (resp'.handler \in ByIdMutations /\ ReachedStatement(resp')
           /\ resp'.id \notin addressedIds(resp'.handler)) =>
          (resp'.status = StatusNotFound /\ UNCHANGED serialDb) ]_vars

----------------------------------------------------------------------------
(* Properties of addEntity of the UUID backend.                            *)

\* the step is addEntity answering a request that passed the gate and whose
\* body decoded
AddEntityStep ==
    /\ resp'.handler = "addEntity"
    /\ resp'.status \notin {StatusUnauthorized, StatusBadRequest}

\* the step stores exactly one entity row, with the id answered and the
\* project of the request
InsertsOneEntity ==
    /\ resp'.status = StatusOK
    /\ \E e \in uEntities' :
          /\ e \notin uEntities
          /\ uEntities' = uEntities \cup {e}
          /\ e.id = resp'.id
          /\ e.project_id = resp'.req.project_id

----------------------------------------------------------------------------
(* Properties of the batch inserts under concurrent requests.              *)

\* the rows of connection c's upload other requests can read
visibleOf(c) == { tc \in uTestCases : tc.conn = c }

\* C21: the rows of one batch insert become visible to other requests all at
\* once or not at all: of an upload that is running or has ended in an error
\* no row is readable, of a committed one every row is, and what a reader
\* returns it has read from those rows.
C21_BatchVisibleAtOnce ==
    /\ \A c \in Conns :
          IF inflight[c].phase = "committed"
          THEN /\ visibleOf(c) = inflight[c].pending
               /\ Cardinality(visibleOf(c)) = Len(inflight[c].items)
          ELSE visibleOf(c) = {}
    /\ test_cases = {}
    /\ resp.handler = "getTestCases" => resp.rows = {}
    /\ resp.handler = "runTestCases" =>
          \A r \in resp.rows : \E tc \in uTestCases : tc.id = r.test_case_id

C21_Witness ==
    /\ resp.handler = "runTestCases"
    /\ resp.rows # {}
    /\ \E c \in Conns : inflight[c].phase = "committed" /\ Len(inflight[c].items) = MaxBatch
    /\ \E c \in Conns : inflight[c].phase = "open" /\ inflight[c].pending # {}

----------------------------------------------------------------------------
(* Properties of the bypass headers.                                       *)

\* the Authorization header of r holds a token the UUID gate accepts for
\* the handler: signed with the server's key, before its expiry, of a stored
\* user who has the role the handler requires
UuidTokenAccepted(r) ==
    /\ r.headers.Authorization.scheme = "Bearer"
    /\ tokenOf(r).key = jwtSecretKey
    /\ now < tokenOf(r).exp
    /\ UuidRequiredRole(r.handler) \in uuidUserRoles(tokenOf(r).sub)

\* C22: in the serial-ID backend any non-empty Rodik value skips the gate,
\* whatever the Authorization header; in the UUID backend only the configured
\* X-Secret-Key value does, and under any other value the request passes
\* exactly when its token does.
C22_BypassValues ==
    /\ (resp.handler \in SerialGated /\ resp.headers.Rodik # "") =>
          (resp.status \notin {StatusUnauthorized, StatusForbidden} /\ ~resp.verified)
    /\ (resp.handler \in UuidGated /\ resp.headers.XSecretKey = bypassSecretKey) =>
          (resp.status # StatusUnauthorized /\ ~resp.verified)
    /\ (resp.handler \in UuidGated /\ resp.headers.XSecretKey # bypassSecretKey) =>
          (resp.status # StatusUnauthorized <=> UuidTokenAccepted(resp))

C22_Witness ==
    /\ resp.handler \in UuidGated
    /\ resp.headers.XSecretKey \notin {"", bypassSecretKey}
    /\ UuidTokenAccepted(resp)
    /\ resp.status = StatusOK

----------------------------------------------------------------------------
(* Properties of the roles of the serial-ID backend.                       *)

\* C23: every protected endpoint of the serial-ID backend requires the role
\* manager: a user of another role logs in and is given a token, and that
\* token is answered 403 at every protected endpoint, which then reads and
\* writes nothing.
C23_OnlyManagers ==
    [][ /\ SerialWrongRole(resp') =>
             /\ resp'.status = StatusForbidden
             /\ resp'.rows = {}
             /\ UNCHANGED <<serialDb, uuidDb>>
        /\ (resp'.handler = "login" /\ resp'.req.decodes) =>
             \A u \in SerialMatches(resp'.req) :
                /\ resp'.status = StatusOK
                /\ resp'.token = SerialToken(jwtSecret, u.username, u.role,
                                             now + SerialTokenTTL) ]_vars

C23_Witness ==
    /\ resp.handler \in SerialGated
    /\ resp.headers.Rodik = ""
    /\ tokenOf(resp) \in { SerialToken(jwtSecret, u.username, u.role, now + 1) :
                             u \in { x \in SerialUsers : x.role = "reader" } }
    /\ resp.status = StatusForbidden

----------------------------------------------------------------------------
(* Properties of the rows that refer to a project.                         *)

\* C24: DELETE /project of the serial-ID backend removes the project row
\* and its test_reports rows and leaves every test case, test plan and test
\* suite of the project in place; GET /test-cases?project_id of the deleted
\* project still returns its test cases.
C24_DeleteLeavesChildren ==
    [][ /\ (resp'.handler = "deleteProject" /\ resp'.status = StatusNoContent) =>
             /\ projects' = { p \in projects : p.id # resp'.id }
             /\ test_reports' = { r \in test_reports : r.project_id # resp'.id }
             /\ UNCHANGED <<test_cases, test_plans, test_suites, test_case_suites,
                            test_case_requirements>>
        /\ (resp'.handler = "getTestCases" /\ resp'.status = StatusOK) =>
             resp'.rows = { tc \in test_cases : tc.project_id = resp'.id } ]_vars

C24_Witness ==
    /\ resp.handler = "getTestCases"
    /\ resp.status = StatusOK
    /\ resp.rows # {}
    /\ nextProjectId > resp.id
    /\ ~(\E p \in projects : p.id = resp.id)
    /\ \E tp \in test_plans : tp.project_id = resp.id
    /\ \E ts \in test_suites : ts.project_id = resp.id
    /\ nextTestReportId > 1 /\ test_reports = {}

\* C25: archiving is one-way and idempotent: a project that is archived is
\* archived in every later state in which its row exists, and archiving an
\* archived project answers 204 and changes nothing.
C25_ArchiveOneWay ==
    [][ /\ \A p \in projects : p.is_archived =>
              \A q \in projects' : q.id = p.id => q.is_archived
        /\ (/\ resp'.handler = "archiveProject"
            /\ ReachedStatement(resp')
            /\ \E p \in projects : p.id = resp'.id /\ p.is_archived) =>
              (resp'.status = StatusNoContent /\ UNCHANGED <<serialDb, uuidDb>>) ]_vars

C25_Witness ==
    /\ resp.handler = "setProjectDescription"
    /\ resp.status = StatusNoContent
    /\ \E p \in projects : p.id = resp.id /\ p.is_archived /\ p.description = "d"

----------------------------------------------------------------------------
(* Properties of the association tables of the serial-ID backend.          *)

\* the step answers an association request that passed the gate and carried
\* two well-formed ids, on the pair p; before and after are the table the
\* request addresses and other the other association table
AssociationStep(p, before, after, adds) ==
    /\ resp'.status = StatusNoContent
    /\ after = IF adds THEN before \cup {p} ELSE before \ {p}
    /\ (adds /\ p \in before) => after = before
    /\ (~adds /\ p \notin before) => after = before
    /\ (adds /\ p \notin before) => after \ {p} = before
    /\ UNCHANGED <<otherThanAssociations, uuidDb>>

\* C26: the association endpoints are set operations: adding a pair that is
\* stored leaves the table as it is, removing a pair that is absent changes
\* nothing, removing exactly undoes the adding of an absent pair, and each
\* call is answered 204.
C26_AssociationsAreSets ==
    [][ \A p \in resp'.rows :
          /\ (resp'.handler = "addTestCaseToTestSuite" /\ ReachedStatement(resp')) =>
                /\ AssociationStep(p, test_case_suites, test_case_suites', TRUE)
                /\ UNCHANGED test_case_requirements
          /\ (resp'.handler = "removeTestCaseFromTestSuite" /\ ReachedStatement(resp')) =>
                /\ AssociationStep(p, test_case_suites, test_case_suites', FALSE)
                /\ UNCHANGED test_case_requirements
          /\ (resp'.handler = "addRequirementToTestCase" /\ ReachedStatement(resp')) =>
                /\ AssociationStep(p, test_case_requirements, test_case_requirements', TRUE)
                /\ UNCHANGED test_case_suites
          /\ (resp'.handler = "removeRequirementFromTestCase" /\ ReachedStatement(resp')) =>
                /\ AssociationStep(p, test_case_requirements, test_case_requirements', FALSE)
                /\ UNCHANGED test_case_suites ]_vars

\* a pair was added to the empty tables and removed again
C26_Witness ==
    /\ resp.handler = "removeTestCaseFromTestSuite"
    /\ resp.status = StatusNoContent
    /\ writesLeft = AssocWrites - 2
    /\ test_case_suites = {} /\ test_case_requirements = {}
    /\ nextProjectId = 1 /\ nextTestPlanId = 1 /\ nextTestSuiteId = 1 /\ nextTestCaseId = 1

\* the ids a successful run over a suite has sent to the external system
listedBy(r) == { x.id : x \in UNION { r.outbound[i].body : i \in 1..Len(r.outbound) } }

\* C27: an association row may name a test case or a suite that does not
\* exist: the add endpoints store the pair whether or not its ids name rows,
\* deleting a test case or a suite leaves both association tables as they
\* are, and a run over a suite lists every test case id paired with the
\* suite, deleted or not.
C27_DanglingAssociations ==
    [][ /\ (resp'.handler = "addTestCaseToTestSuite" /\ ReachedStatement(resp')) =>
             (resp'.status = StatusNoContent /\ resp'.rows \subseteq test_case_suites')
        /\ (resp'.handler = "addRequirementToTestCase" /\ ReachedStatement(resp')) =>
             (resp'.status = StatusNoContent /\ resp'.rows \subseteq test_case_requirements')
        /\ (resp'.handler \in {"deleteTestCase", "deleteTestSuite"}
              /\ resp'.status = StatusNoContent) =>
             UNCHANGED <<test_case_suites, test_case_requirements>>
        /\ (resp'.handler = "runTests" /\ resp'.status = StatusOK) =>
             listedBy(resp') = { x[2] : x \in { y \in test_case_suites :
                                                  y[1] = resp'.req.test_suite_id } } ]_vars

\* a run has listed a test case that was created, paired and deleted
C27_Witness ==
    /\ resp.handler = "runTests"
    /\ resp.status = StatusOK
    /\ \E id \in listedBy(resp) :
          /\ id < nextTestCaseId
          /\ ~(\E tc \in test_cases : tc.id = id)

----------------------------------------------------------------------------
(* Properties of a test run that fails part-way.                           *)

\* the step is a run answered 500 after its PATCH could not be sent
RunFailedAfterInsert ==
    /\ resp'.handler = "runTests"
    /\ resp'.status = StatusInternalServerError
    /\ resp'.outbound # << >>

\* C28: POST /run-tests is not atomic: a run that fails after the report
\* insert is answered 500 and its report row stays stored, and GET
\* /test-reports returns the stored rows, that one included.
C28_RunNotAtomic ==
    [][ /\ RunFailedAfterInsert =>
             \E r \in test_reports' :
                /\ r.id = nextTestReportId
                /\ r.project_id = resp'.req.project_id
                /\ r \notin test_reports
                /\ test_reports' = test_reports \cup {r}
        /\ (resp'.handler = "getTestReports" /\ resp'.status = StatusOK) =>
             resp'.rows = test_reports ]_vars

\* a run was answered 500 after the PATCH failed and its report is stored
C28_Witness ==
    /\ resp.handler = "runTests"
    /\ resp.status = StatusInternalServerError
    /\ resp.outbound # << >>
    /\ \E r \in test_reports :
          r.id = nextTestReportId - 1 /\ r.test_suite_id = resp.req.test_suite_id

----------------------------------------------------------------------------
(* Properties of the answer of the UUID backend's batch upload.            *)

\* C29: a test case uploaded without an id is stored under a generated id,
\* and the success response echoes the submitted list unchanged: the test
\* case is answered with the nil id, not with the id it is stored under.
C29_EchoKeepsNilId ==
    [][ (resp'.handler = "batchUploadTestCases" /\ resp'.status = StatusOK) =>
          LET items == resp'.req.items
              stored == uTestCases' \ uTestCases
              generated == { r \in stored : r.id > GeneratedBase }
          IN
          /\ resp'.rows = { [id |-> items[i].id, pos |-> i] : i \in 1..Len(items) }
          /\ Cardinality(stored) = Len(items)
          /\ Cardinality(generated) =
                Cardinality({ i \in 1..Len(items) : items[i].id = NilUuid })
          /\ \A r \in uTestCases' : r.id # NilUuid
          /\ \A r \in generated : \A x \in resp'.rows : x.id # r.id ]_vars

C29_Witness ==
    /\ resp.handler = "batchUploadTestCases"
    /\ resp.status = StatusOK
    /\ \E x \in resp.rows : x.id = NilUuid
    /\ \E x \in resp.rows : x.id # NilUuid
    /\ \E r \in uTestCases : r.id > GeneratedBase

----------------------------------------------------------------------------
(* Properties of the browser client's session.                             *)

SignedOut(b) == b.token = NoToken /\ b.user = NoUser

\* C30: after a 401 response to any request, a failed login included, and
\* after logout, the stored token and the stored user are both absent; while
\* they are, every request is sent without an Authorization header and App
\* shows the login page on load; only a successful login stores a token and
\* a user again.
C30_SignedOutUntilLogin ==
    [][ /\ (browser'.last.event = "response" /\ browser'.last.status = StatusUnauthorized) =>
             SignedOut(browser')
        /\ browser'.last.event = "logout" => SignedOut(browser')
        /\ (SignedOut(browser) /\ browser'.last.event = "send") =>
             \A r \in browser'.pending \ browser.pending : r.headers.Authorization = NoAuth
        /\ (SignedOut(browser) /\ browser'.last.event = "load") => browser'.page = "login"
        /\ (SignedOut(browser) /\ ~SignedOut(browser')) =>
             /\ browser'.last = [event |-> "response", endpoint |-> "/login",
                                 status |-> StatusOK]
             /\ browser'.token # NoToken /\ browser'.user # NoUser ]_vars

\* a data request of a signed-in session was answered 401
C30_Witness ==
    /\ browser.last = [event |-> "response", endpoint |-> "/projects",
                       status |-> StatusUnauthorized]
    /\ SignedOut(browser)
    /\ browser.page = "loading"
    /\ \E r \in browser.pending : r.headers.Authorization # NoAuth

====
